---- MODULE Spec2Model ----
(***************************************************************************)
(* Position snapshots, equity snapshots and leverage estimation of the     *)
(* wallet tracker: the scheduled refresh (services/wallet_refresh.py), the *)
(* dashboard page load (app.py, wallet_dashboard), the snapshot insert     *)
(* (db/queries.py) and the two leverage calculators                        *)
(* (services/apex_leverage_calculator.py,                                  *)
(*  services/hyperliquid_leverage_calculator.py).                          *)
(*                                                                         *)
(* Numbers.  Python floats are modelled as exact rationals <<n, d>> in     *)
(* lowest terms with d > 0.  An optional value is None (the empty tuple)   *)
(* or the value; an optional integer v is the one-element tuple <<v>>.     *)
(* Time.  A datetime is an integer number of ticks; TicksPerMinute ticks   *)
(* make one minute, so that two consecutive utcnow() calls of one handler  *)
(* can be told apart (they differ by one tick).                            *)
(* Strings that the code takes apart (symbols) are tuples of characters.   *)
(***************************************************************************)
EXTENDS Integers, Sequences, FiniteSets, TLC

VARIABLES
    position_snapshots,   \* table position_snapshots, in insertion (id) order
    equity_snapshots,     \* table equity_snapshots, in insertion (id) order
    exchange_log,         \* what the exchange returned to each handler run
    est_calls,            \* the leverage-calculator calls of the last handler run,
                          \* each with the number of rows its queries could see
    now,                  \* the clock (datetime.utcnow()), in ticks
    ncycles,              \* number of handler runs so far
    closed_trades,        \* table closed_trades (the trade legs), in id order
    aggregated_trades,    \* table aggregated_trades, in id order
    positions_tbl,        \* table positions, in id order
    strategy_assignments, \* table strategy_assignments, in id order
    last_call,            \* the last call of a function under study: its name,
                          \* its arguments and what it returned
    passes                \* per thread, the snapshot-writing pass it has in
                          \* progress: what it read and the rows it will commit

\* the threads that write snapshots: the scheduler's thread ("EquityLogger")
\* and the thread that serves a page load ("request")
Threads == {"EquityLogger", "request"}

\* no pass in progress
NoPasses == [t \in Threads |-> <<>>]

snapshotVars == <<position_snapshots, equity_snapshots, exchange_log, est_calls>>

tradeVars == <<closed_trades, aggregated_trades, positions_tbl>>

vars == <<position_snapshots, equity_snapshots, exchange_log, est_calls, now, ncycles,
          closed_trades, aggregated_trades, positions_tbl, strategy_assignments, last_call,
          passes>>

-----------------------------------------------------------------------------
(* Bounds of the model *)

MaxCycles == 2
MaxCyclesSessions == 3
MaxCyclesReopen == 4

-----------------------------------------------------------------------------
(* Optional values and rationals *)

None == <<>>

Some(v) == <<v>>

Abs(x) == IF x < 0 THEN -x ELSE x

RECURSIVE GCD(_, _)
GCD(a, b) == IF b = 0 THEN a ELSE GCD(b, a % b)

\* the rational n/d (d # 0) in lowest terms with a positive denominator
Frac(n, d) ==
    LET g == GCD(Abs(n), Abs(d))
        s == IF d < 0 THEN -1 ELSE 1
    IN  <<(s * n) \div g, (s * d) \div g>>

RatInt(i) == <<i, 1>>

RatLess(a, b) == a[1] * b[2] < b[1] * a[2]

RatLeq(a, b) == a[1] * b[2] <= b[1] * a[2]

RatMul(a, b) == Frac(a[1] * b[1], a[2] * b[2])

RatDiv(a, b) == Frac(a[1] * b[2], a[2] * b[1])

RatMin(a, b) == IF RatLeq(a, b) THEN a ELSE b

RatMax(a, b) == IF RatLeq(a, b) THEN b ELSE a

\* Python round(q, digits) with scale = 10^digits: nearest multiple of
\* 1/scale, a tie going to the even one
RatRound(q, scale) ==
    LET num == q[1] * scale
        f   == num \div q[2]
        r2  == 2 * (num - f * q[2])
        up  == \/ r2 > q[2]
               \/ r2 = q[2] /\ f % 2 = 1
    IN  Frac(IF up THEN f + 1 ELSE f, scale)

\* Python truthiness of an optional float: None and 0.0 are false
Truthy(x) == x # None /\ x[1] # 0

-----------------------------------------------------------------------------
(* Strings as tuples of characters *)

LowerChars == <<"a","b","c","d","e","f","g","h","i","j","k","l","m",
                "n","o","p","q","r","s","t","u","v","w","x","y","z">>

UpperChars == <<"A","B","C","D","E","F","G","H","I","J","K","L","M",
                "N","O","P","Q","R","S","T","U","V","W","X","Y","Z">>

\* str.upper() on one character
UpperChar(c) ==
    IF \E i \in 1..Len(LowerChars) : LowerChars[i] = c
    THEN UpperChars[CHOOSE i \in 1..Len(LowerChars) : LowerChars[i] = c]
    ELSE c

EndsWith(s, suffix) ==
    /\ Len(s) >= Len(suffix)
    /\ SubSeq(s, Len(s) - Len(suffix) + 1, Len(s)) = suffix

QuoteAssets == << <<"U","S","D","T">>, <<"U","S","D","C">>, <<"U","S","D">> >>

normalize_symbol(symbol) ==
    IF symbol = <<>> THEN <<>>
    ELSE
      LET s == [i \in 1..Len(symbol) |->
                   IF symbol[i] = "_" THEN "-" ELSE UpperChar(symbol[i])]
          matches == {q \in 1..Len(QuoteAssets) :
                         EndsWith(s, QuoteAssets[q]) /\ Len(s) > Len(QuoteAssets[q])}
      IN  IF \E i \in 1..Len(s) : s[i] = "-" THEN s
          ELSE IF matches # {} THEN
              LET q    == CHOOSE m \in matches : \A o \in matches : m <= o
                  base == SubSeq(s, 1, Len(s) - Len(QuoteAssets[q]))
              IN  base \o <<"-">> \o QuoteAssets[q]
          ELSE s

NO_POSITIONS == <<"N","O","_","P","O","S","I","T","I","O","N","S">>

-----------------------------------------------------------------------------
(* Time *)

TicksPerMinute == 10

NewPositionLookbackMinutes == 5

ApexMarginLookbackHours == 1

HyperliquidMarginLookbackHours == 24

Minutes(m) == m * TicksPerMinute

Hours(h) == h * 60 * TicksPerMinute

-----------------------------------------------------------------------------
(* Queries: .order_by(timestamp.desc()).first() and .order_by(timestamp).first() *)

\* the row with the greatest timestamp (the lowest id among equal
\* timestamps), or None
LatestRow(table, idx) ==
        IF idx = {} THEN None
        ELSE table[CHOOSE i \in idx :
                     \A j \in idx : \/ table[j].timestamp < table[i].timestamp
                                    \/ table[j].timestamp = table[i].timestamp /\ i <= j]

\* the row with the least timestamp (the lowest id among equal timestamps),
\* or None
EarliestRow(table, idx) ==
        IF idx = {} THEN None
        ELSE table[CHOOSE i \in idx :
                     \A j \in idx : \/ table[j].timestamp > table[i].timestamp
                                    \/ table[j].timestamp = table[i].timestamp /\ i <= j]

-----------------------------------------------------------------------------
(* db/queries.py: inserts.  A handler adds its rows to the session and     *)
(* commits at its end; the session factory has autoflush = False           *)
(* (db/database.py), so every query of a handler run reads the tables as   *)
(* they were when the run started.                                         *)

MethodNone == "None"

insert_equity_snapshot(data) ==
    [wallet_id      |-> data.wallet_id,
     timestamp      |-> data.timestamp,
     initial_margin |-> data.initial_margin]

insert_position_snapshot(snaps, data) ==
    LET current_timestamp == data.timestamp
        wallet_id         == data.wallet_id
        symbol            == data.symbol
        current_size      == data.size
        Prev(r) == /\ r.wallet_id = wallet_id
                   /\ r.symbol = symbol
                   /\ r.size > 0
                   /\ r.timestamp < current_timestamp
        prev_snapshot == LatestRow(snaps, {i \in 1..Len(snaps) : Prev(snaps[i])})
        opened_at ==
            IF wallet_id # 0 /\ current_size > 0
            THEN IF prev_snapshot # None /\ prev_snapshot.opened_at # None
                 THEN prev_snapshot.opened_at
                 ELSE Some(current_timestamp)
            ELSE None
    IN  [wallet_id              |-> wallet_id,
         timestamp              |-> current_timestamp,
         symbol                 |-> symbol,
         size                   |-> current_size,
         position_size_usd      |-> data.position_size_usd,
         leverage               |-> IF Truthy(data.leverage) THEN data.leverage ELSE None,
         equity_used            |-> IF Truthy(data.equity_used) THEN data.equity_used ELSE None,
         initial_margin_at_open |-> data.initial_margin_at_open,
         calculation_method     |-> data.calculation_method,
         opened_at              |-> opened_at]

\* the zero-position marker written when a run stored no position
NoPositionsData(wallet_id, timestamp) ==
    [wallet_id              |-> wallet_id,
     timestamp              |-> timestamp,
     symbol                 |-> NO_POSITIONS,
     size                   |-> 0,
     position_size_usd      |-> 0,
     leverage               |-> None,
     equity_used            |-> None,
     initial_margin_at_open |-> None,
     calculation_method     |-> MethodNone]

\* utils/validation.py: sanitize_float(value, default, min_val = 0) of a number
sanitize_float(value, default) == IF value < 0 THEN default ELSE value

-----------------------------------------------------------------------------
(* services/apex_leverage_calculator.py *)

is_new_position(snaps, wallet_id, symbol, current_timestamp) ==
    LET lookback == current_timestamp - Minutes(NewPositionLookbackMinutes)
        Recent(r) == /\ r.wallet_id = wallet_id
                     /\ r.symbol = symbol
                     /\ r.timestamp < current_timestamp
                     /\ r.timestamp >= lookback
        previous == LatestRow(snaps, {i \in 1..Len(snaps) : Recent(snaps[i])})
    IN  IF previous = None THEN TRUE
        ELSE IF previous.size = 0 THEN TRUE
        ELSE FALSE

get_previous_initial_margin(equity, wallet_id, before_timestamp) ==
    LET lookback == before_timestamp - Hours(ApexMarginLookbackHours)
        Wanted(e) == /\ e.wallet_id = wallet_id
                     /\ e.timestamp < before_timestamp
                     /\ e.timestamp >= lookback
                     /\ e.initial_margin # None
        snapshot == LatestRow(equity, {i \in 1..Len(equity) : Wanted(equity[i])})
    IN  IF snapshot # None THEN snapshot.initial_margin ELSE None

\* calculate_from_margin_rate that stores the margin rate itself as the leverage
calculate_from_margin_rate_uninverted(position_raw) ==
    LET margin_rate == position_raw.customInitialMarginRate
    IN  IF RatLess(RatInt(0), margin_rate)
        THEN <<margin_rate,
               RatMul(RatInt(Abs(position_raw.size) * position_raw.entryPrice), margin_rate),
               "margin_rate">>
        ELSE <<None, None, "unknown">>

calculate_from_margin_rate(position_raw) ==
    LET margin_rate == position_raw.customInitialMarginRate
    IN  IF RatLess(RatInt(0), margin_rate)
        THEN LET leverage          == RatDiv(RatInt(1), margin_rate)
                 size              == Abs(position_raw.size)
                 entry_price       == position_raw.entryPrice
                 position_size_usd == size * entry_price
                 equity_used       == RatMul(RatInt(position_size_usd), margin_rate)
             IN  <<leverage, equity_used, "margin_rate">>
        ELSE <<None, None, "unknown">>

\* calculate_leverage_from_margin_delta that rejects a margin delta above
\* the notional instead of logging it
apex_calculate_leverage_from_margin_delta_capped(snaps, equity, wallet_id, symbol, position_size_usd, current_initial_margin, current_timestamp, position_raw) ==
    IF ~is_new_position(snaps, wallet_id, symbol, current_timestamp)
    THEN calculate_from_margin_rate(position_raw)
    ELSE
      LET previous_margin == get_previous_initial_margin(equity, wallet_id, current_timestamp)
      IN  IF previous_margin = None
          THEN calculate_from_margin_rate(position_raw)
          ELSE
            LET margin_delta == current_initial_margin - previous_margin[1]
            IN  IF margin_delta <= 0 \/ margin_delta > position_size_usd
                THEN calculate_from_margin_rate(position_raw)
                ELSE <<Frac(position_size_usd, margin_delta),
                       RatInt(margin_delta),
                       "margin_delta">>

apex_calculate_leverage_from_margin_delta(snaps, equity, wallet_id, symbol, position_size_usd, current_initial_margin, current_timestamp, position_raw) ==
    IF ~is_new_position(snaps, wallet_id, symbol, current_timestamp)
    THEN calculate_from_margin_rate(position_raw)
    ELSE
      LET previous_margin == get_previous_initial_margin(equity, wallet_id, current_timestamp)
      IN  IF previous_margin = None
          THEN calculate_from_margin_rate(position_raw)
          ELSE
            LET margin_delta == current_initial_margin - previous_margin[1]
            IN  IF margin_delta <= 0
                THEN calculate_from_margin_rate(position_raw)
                ELSE <<Frac(position_size_usd, margin_delta),
                       RatInt(margin_delta),
                       "margin_delta">>

-----------------------------------------------------------------------------
(* services/hyperliquid_leverage_calculator.py *)

MaxPreservedLeverage == 100

get_previous_margin_used(equity, wallet_id, before_timestamp) ==
    LET lookback == before_timestamp - Hours(HyperliquidMarginLookbackHours)
        Wanted(e) == /\ e.wallet_id = wallet_id
                     /\ e.timestamp < before_timestamp
                     /\ e.timestamp >= lookback
                     /\ e.initial_margin # None
        snapshot == LatestRow(equity, {i \in 1..Len(equity) : Wanted(equity[i])})
    IN  IF snapshot # None THEN snapshot.initial_margin ELSE None

hl_calculate_leverage_from_margin_delta(snaps, equity, wallet_id, symbol, position_size_usd, current_margin_used, current_timestamp) ==
    LET is_new == is_new_position(snaps, wallet_id, symbol, current_timestamp)
        Earlier(r) == /\ r.wallet_id = wallet_id
                      /\ r.symbol = symbol
                      /\ r.timestamp < current_timestamp
        latest_snapshot == LatestRow(snaps, {i \in 1..Len(snaps) : Earlier(snaps[i])})
        Opened(r) == /\ r.wallet_id = wallet_id
                     /\ r.symbol = symbol
                     /\ r.size > 0
        first_snapshot == IF latest_snapshot # None THEN EarliestRow(snaps, {i \in 1..Len(snaps) : Opened(snaps[i])}) ELSE None
        has_opened_at == first_snapshot # None /\ first_snapshot.opened_at # None
        lookup_timestamp == IF has_opened_at THEN first_snapshot.opened_at[1] ELSE current_timestamp
        \* the tail of the function: validate the delta and divide
        FromDelta(margin_delta) ==
            IF margin_delta <= 0
            THEN <<None, None, "unknown">>
            ELSE <<Frac(position_size_usd, margin_delta), RatInt(margin_delta), "margin_delta">>
        \* the three "get previous margin used" fallbacks
        FromPrevious ==
            LET previous_margin == get_previous_margin_used(equity, wallet_id, lookup_timestamp)
            IN  IF previous_margin = None
                THEN <<None, None, "unknown">>
                ELSE FromDelta(current_margin_used - previous_margin[1])
    IN  IF /\ first_snapshot # None
           /\ first_snapshot.leverage # None
           /\ RatLeq(first_snapshot.leverage, RatInt(MaxPreservedLeverage))
        THEN <<first_snapshot.leverage,
               IF Truthy(first_snapshot.equity_used) THEN first_snapshot.equity_used ELSE None,
               IF first_snapshot.calculation_method \in {MethodNone, ""}
               THEN "margin_delta" ELSE first_snapshot.calculation_method>>
        \* needs_leverage_calc is true in every other case
        ELSE IF (~is_new /\ latest_snapshot # None) \/ has_opened_at
        THEN IF has_opened_at
             THEN LET AtOpen(e) == /\ e.wallet_id = wallet_id
                                   /\ e.timestamp <= first_snapshot.opened_at[1]
                      BeforeOpen(e) == /\ e.wallet_id = wallet_id
                                       /\ e.timestamp < first_snapshot.opened_at[1]
                      equity_at_open == LatestRow(equity, {i \in 1..Len(equity) : AtOpen(equity[i])})
                      equity_before_open == LatestRow(equity, {i \in 1..Len(equity) : BeforeOpen(equity[i])})
                  IN  IF equity_at_open # None /\ equity_at_open.initial_margin # None
                      THEN LET margin_at_open == equity_at_open.initial_margin[1]
                               margin_before_open ==
                                   IF /\ equity_before_open # None
                                      /\ equity_before_open.initial_margin # None
                                   THEN equity_before_open.initial_margin[1]
                                   ELSE 0
                           IN  FromDelta(margin_at_open - margin_before_open)
                      ELSE FromPrevious
             ELSE FromPrevious
        ELSE FromPrevious

-----------------------------------------------------------------------------
(* services/data_service.py and utils/calculations.py: display estimates   *)

estimate_equity_used(position_size_usd, leverage) ==
    IF ~Truthy(leverage) THEN RatInt(0)
    ELSE RatRound(RatDiv(position_size_usd, leverage), 100)

\* enrich_positions: the "leverage" and "equityUsed" keys it adds to a position
enrich_positions(pos) ==
    LET margin_rate == pos.customInitialMarginRate
        leverage == IF RatLess(RatInt(0), margin_rate)
                    THEN RatRound(RatDiv(RatInt(1), margin_rate), 10)
                    ELSE None
        positionSizeUsd == RatInt(pos.entryPrice * Abs(pos.size))
        equityUsed == IF Truthy(positionSizeUsd) /\ Truthy(leverage)
                      THEN estimate_equity_used(positionSizeUsd, leverage)
                      ELSE None
    IN  [leverage |-> leverage, equityUsed |-> equityUsed]

MaxEstimatedLeverage == 50

estimate_leverage_hyperliquid(position_size_usd, account_equity, position_value) ==
    IF position_size_usd <= 0 THEN None
    ELSE IF account_equity <= 0 THEN None
    ELSE
      LET size_usd == RatInt(position_size_usd)
          equity   == RatInt(account_equity)
          estimated_equity_used ==
              IF position_value # None /\ position_value[1] > 0
              THEN IF position_value[1] >= account_equity
                   THEN RatMul(equity, Frac(6, 10))
                   ELSE RatMul(RatInt(position_value[1]), Frac(8, 10))
              ELSE LET position_ratio == RatDiv(size_usd, equity)
                   IN  IF RatLeq(RatInt(1), position_ratio)
                       THEN RatMul(equity, Frac(5, 10))
                       ELSE RatMul(equity,
                                   RatMax(Frac(1, 10), RatMul(position_ratio, Frac(7, 10))))
          leverage == RatDiv(size_usd, estimated_equity_used)
      IN  RatRound(RatMin(leverage, RatInt(MaxEstimatedLeverage)), 10)

-----------------------------------------------------------------------------
(* Trade legs and aggregated trades.                                       *)
(* A row of closed_trades (a leg) is a record with the columns wallet_id,  *)
(* timestamp, side, symbol, size, entry_price, exit_price, close_fee,      *)
(* open_fee, liquidate_fee, equity_used, leverage, strategy_id and         *)
(* reduce_only; the id of a row is its index in the table.  The text       *)
(* columns trade_type and exit_type, which every function copies as they   *)
(* are, and closed_pnl are left out.  Prices, sizes and fees are           *)
(* rationals; reduce_only is None, Some(TRUE) or Some(FALSE).              *)
(* The session factory has autoflush off (db/database.py:22): a query      *)
(* inside a session sees the rows of the database, not the rows the        *)
(* session has added and not yet committed.                                *)

RatAdd(a, b) == Frac(a[1] * b[2] + b[1] * a[2], a[2] * b[2])

RatSub(a, b) == Frac(a[1] * b[2] - b[1] * a[2], a[2] * b[2])

RatAbs(a) == <<Abs(a[1]), a[2]>>

\* Python's "x or 0" on an optional float
OrZero(x) == IF Truthy(x) THEN x ELSE RatInt(0)

\* the fee as it is stored on the aggregated trade: fee if (fee or 0) > 0 else None
PositiveOrNone(fee) == IF RatLess(RatInt(0), OrZero(fee)) THEN fee ELSE None

SizeTolerance == Frac(1, 1000)

\* the ids of a table's rows that satisfy the filter given as a set of ids,
\* as a list in id order
RECURSIVE IdList(_)
IdList(ids) ==
    IF ids = {} THEN <<>>
    ELSE LET least == CHOOSE i \in ids : \A j \in ids : i <= j
         IN  <<least>> \o IdList(ids \ {least})

\* list.sort(key=lambda t: t.timestamp, reverse=True): a stable sort, the
\* legs of one timestamp keep their order
RECURSIVE SortByTimestampDesc(_, _)
SortByTimestampDesc(trades, ids) ==
    IF ids = <<>> THEN <<>>
    ELSE LET sorted == SortByTimestampDesc(trades, Tail(ids))
             head == Head(ids)
             before == {k \in 1..Len(sorted) :
                           trades[sorted[k]].timestamp > trades[head].timestamp}
         IN  SubSeq(sorted, 1, Cardinality(before)) \o <<head>>
                 \o SubSeq(sorted, Cardinality(before) + 1, Len(sorted))

opening_candidates_unsorted(trades, legs, wallet_id, symbol) ==
    IdList({i \in legs : /\ trades[i].reduce_only = Some(FALSE)
                         /\ trades[i].wallet_id = wallet_id
                         /\ normalize_symbol(trades[i].symbol) = symbol})

\* opening_lookup[(wallet_id, symbol)], sorted
opening_candidates(trades, legs, wallet_id, symbol) ==
    SortByTimestampDesc(trades,
        IdList({i \in legs : /\ trades[i].reduce_only = Some(FALSE)
                             /\ trades[i].wallet_id = wallet_id
                             /\ normalize_symbol(trades[i].symbol) = symbol}))

candidate_matches_any_size(candidate, closing_leg) ==
    /\ ~(candidate.timestamp >= closing_leg.timestamp)
    /\ candidate.size # RatInt(0)

\* the test of one candidate against a closing leg
candidate_matches(candidate, closing_leg) ==
    /\ ~(candidate.timestamp >= closing_leg.timestamp)
    /\ candidate.size # RatInt(0)
    /\ ~RatLess(SizeTolerance,
                RatDiv(RatAbs(RatSub(candidate.size, closing_leg.size)), candidate.size))

\* the inner loop: the first candidate that passes, None when none does
RECURSIVE find_opening_leg(_, _, _)
find_opening_leg(trades, candidates, closing_leg) ==
    IF candidates = <<>> THEN None
    ELSE IF candidate_matches(trades[Head(candidates)], closing_leg)
         THEN Some(Head(candidates))
         ELSE find_opening_leg(trades, Tail(candidates), closing_leg)

\* services/aggregation_service.py: close_position.  The query runs on the
\* rows of the database (db_positions); the change is made to the session's
\* objects (positions).
close_position(db_positions, positions, wallet_id, symbol, side, closed_at, exit_price, realized_pnl) ==
    LET open == {k \in 1..Len(db_positions) :
                    /\ db_positions[k].wallet_id = wallet_id
                    /\ db_positions[k].symbol = symbol
                    /\ db_positions[k].side = side
                    /\ db_positions[k].closed_at = None}
    IN  IF open = {} THEN positions
        ELSE LET k == CHOOSE o \in open : \A p \in open : o <= p
             IN  [positions EXCEPT ![k] =
                     [@ EXCEPT !.closed_at = Some(closed_at),
                               !.exit_price = IF exit_price # None THEN exit_price ELSE @,
                               !.realized_pnl = IF realized_pnl # None THEN realized_pnl ELSE @]]

position_side_of(opening_leg) == IF opening_leg.side = "BUY" THEN "LONG" ELSE "SHORT"

total_pnl_swapped(opening_leg, closing_leg) ==
    LET size == RatAbs(closing_leg.size)
        pnl == IF position_side_of(opening_leg) = "LONG"
               THEN RatMul(RatSub(opening_leg.entry_price, closing_leg.exit_price), size)
               ELSE RatMul(RatSub(closing_leg.exit_price, opening_leg.entry_price), size)
        total_fees == RatAdd(RatAdd(OrZero(opening_leg.open_fee), OrZero(closing_leg.close_fee)),
                             OrZero(closing_leg.liquidate_fee))
    IN  RatSub(pnl, total_fees)

total_pnl_of(opening_leg, closing_leg) ==
    LET size == RatAbs(closing_leg.size)
        pnl == IF position_side_of(opening_leg) = "LONG"
               THEN RatMul(RatSub(closing_leg.exit_price, opening_leg.entry_price), size)
               ELSE RatMul(RatSub(opening_leg.entry_price, closing_leg.exit_price), size)
        total_fees == RatAdd(RatAdd(OrZero(opening_leg.open_fee), OrZero(closing_leg.close_fee)),
                             OrZero(closing_leg.liquidate_fee))
    IN  RatSub(pnl, total_fees)

\* the AggregatedTrade of a matched pair
agg_trade_of(opening_leg, closing_leg, symbol) ==
    [wallet_id           |-> closing_leg.wallet_id,
     timestamp           |-> closing_leg.timestamp,
     symbol              |-> symbol,
     side                |-> position_side_of(opening_leg),
     size                |-> RatAbs(closing_leg.size),
     avg_entry_price     |-> opening_leg.entry_price,
     avg_exit_price      |-> closing_leg.exit_price,
     total_pnl           |-> total_pnl_of(opening_leg, closing_leg),
     total_open_fee      |-> PositiveOrNone(opening_leg.open_fee),
     total_close_fee     |-> PositiveOrNone(closing_leg.close_fee),
     total_liquidate_fee |-> PositiveOrNone(closing_leg.liquidate_fee),
     equity_used         |-> closing_leg.equity_used,
     leverage            |-> closing_leg.leverage,
     strategy_id         |-> closing_leg.strategy_id,
     fill_count          |-> 2]

\* one pass of the loop over the closing legs.  run: the session's state,
\* with the aggregated trades and positions as the session holds them, the
\* ids matched so far, the count, and for each match the closing leg, the
\* opening leg, the row written and the trade written to it
aggregate_closing_leg(trades, legs, db_aggregated, db_positions, run, c) ==
    LET closing_leg == trades[c]
        symbol == normalize_symbol(closing_leg.symbol)
        found == find_opening_leg(trades,
                     opening_candidates(trades, legs, closing_leg.wallet_id, symbol),
                     closing_leg)
    IN  IF c \in run.matched_closing_ids \/ found = None THEN run
        ELSE
          LET opening_leg == trades[found[1]]
              new == agg_trade_of(opening_leg, closing_leg, symbol)
              same == {k \in 1..Len(db_aggregated) :
                          /\ db_aggregated[k].wallet_id = closing_leg.wallet_id
                          /\ db_aggregated[k].timestamp = closing_leg.timestamp
                          /\ db_aggregated[k].symbol = symbol}
              existing == IF same = {} THEN 0
                          ELSE CHOOSE k \in same : \A o \in same : k <= o
              row == IF existing # 0 THEN existing ELSE Len(run.aggregated) + 1
          IN  [aggregated |-> IF existing # 0
                              THEN [run.aggregated EXCEPT ![existing] = new]
                              ELSE Append(run.aggregated, new),
               positions  |-> close_position(db_positions, run.positions,
                                  closing_leg.wallet_id, symbol, new.side,
                                  closing_leg.timestamp, closing_leg.exit_price,
                                  new.total_pnl),
               matched_closing_ids |-> run.matched_closing_ids \cup {c},
               pairs |-> Append(run.pairs,
                                [closing |-> c, opening |-> found[1], row |-> row,
                                 trade |-> new]),
               count |-> run.count + 1]

RECURSIVE aggregate_closing_legs(_, _, _, _, _, _)
aggregate_closing_legs(trades, legs, db_aggregated, db_positions, run, closing_legs) ==
    IF closing_legs = <<>> THEN run
    ELSE aggregate_closing_legs(trades, legs, db_aggregated, db_positions,
             aggregate_closing_leg(trades, legs, db_aggregated, db_positions, run,
                                   Head(closing_legs)),
             Tail(closing_legs))

\* services/aggregation_service.py: sync_aggregated_trades.  trades,
\* aggregated and positions are the rows of the database as the session
\* reads them; wallet_id 0 stands for a call without a wallet (None)
sync_aggregated_trades(trades, aggregated, positions, wallet_id) ==
    LET legs == {i \in 1..Len(trades) : wallet_id = 0 \/ trades[i].wallet_id = wallet_id}
        closing_legs == IdList({i \in legs : trades[i].reduce_only = Some(TRUE)})
                            \o IdList({i \in legs : trades[i].reduce_only = None})
        start == [aggregated |-> aggregated, positions |-> positions,
                  matched_closing_ids |-> {}, pairs |-> <<>>, count |-> 0]
    IN  aggregate_closing_legs(trades, legs, aggregated, positions, start, closing_legs)

-----------------------------------------------------------------------------
(* db/queries_strategies.py.  A row of strategy_assignments has wallet_id, *)
(* symbol, strategy_id, start_at, end_at (None or Some(t)) and active.     *)

\* the assignments the filter of resolve_strategy_id keeps
assignments_covering(assignments, wallet_id, symbol, ts) ==
    LET sym == normalize_symbol(symbol)
    IN  {i \in 1..Len(assignments) :
            /\ assignments[i].wallet_id = wallet_id
            /\ assignments[i].symbol = sym
            /\ assignments[i].start_at <= ts
            /\ (assignments[i].end_at = None \/ assignments[i].end_at[1] >= ts)}

resolve_strategy_id_earliest(assignments, wallet_id, symbol, ts) ==
    LET a == EarliestRow([i \in 1..Len(assignments) |->
                             [timestamp |-> assignments[i].start_at,
                              strategy_id |-> assignments[i].strategy_id]],
                         assignments_covering(assignments, wallet_id, symbol, ts))
    IN  IF a # None THEN Some(a.strategy_id) ELSE None

\* order_by(start_at.desc()).first(): of the assignments of one start_at
\* the one with the lowest id
resolve_strategy_id(assignments, wallet_id, symbol, ts) ==
    LET a == LatestRow([i \in 1..Len(assignments) |->
                           [timestamp |-> assignments[i].start_at,
                            strategy_id |-> assignments[i].strategy_id]],
                       assignments_covering(assignments, wallet_id, symbol, ts))
    IN  IF a # None THEN Some(a.strategy_id) ELSE None

-----------------------------------------------------------------------------
(* db/queries.py: the leverage of a trade looked up in the snapshots *)

\* the rows the filters of get_leverage_at_timestamp keep
leverage_snapshots_at(snaps, wallet_id, symbol, timestamp) ==
    LET sym == normalize_symbol(symbol)
        Kept(r) == /\ r.symbol = sym
                   /\ r.timestamp <= timestamp
                   /\ r.leverage # None
                   /\ r.size > 0
                   /\ (wallet_id # 0 => r.wallet_id = wallet_id)
    IN  {i \in 1..Len(snaps) : Kept(snaps[i])}

get_leverage_at_timestamp(snaps, wallet_id, symbol, timestamp) ==
    LET result == LatestRow(snaps, leverage_snapshots_at(snaps, wallet_id, symbol, timestamp))
    IN  IF result # None THEN result.leverage ELSE None

-----------------------------------------------------------------------------
(* db/queries.py: upsert_closed_trade.  db_trades: the rows of the         *)
(* database, which the query reads; trades: the rows as the session holds  *)
(* them, with the rows it has added at the end.  data: the trade as the    *)
(* caller built it, a key the caller left out being None.                  *)

upsert_closed_trade(db_trades, trades, data, wallet_id) ==
    LET ts == data.timestamp
        symbol == normalize_symbol(data.symbol)
        size == data.size
        same == {i \in 1..Len(db_trades) :
                    /\ db_trades[i].wallet_id = wallet_id
                    /\ db_trades[i].symbol = symbol
                    /\ db_trades[i].timestamp = ts
                    /\ db_trades[i].size = size}
        trade == [wallet_id     |-> wallet_id,
                  timestamp     |-> ts,
                  side          |-> data.side,
                  symbol        |-> symbol,
                  size          |-> size,
                  entry_price   |-> data.entry_price,
                  exit_price    |-> data.exit_price,
                  close_fee     |-> IF Truthy(data.close_fee) THEN data.close_fee ELSE None,
                  open_fee      |-> IF Truthy(data.open_fee) THEN data.open_fee ELSE None,
                  liquidate_fee |-> IF Truthy(data.liquidate_fee) THEN data.liquidate_fee ELSE None,
                  equity_used   |-> IF Truthy(data.equity_used) THEN data.equity_used ELSE None,
                  leverage      |-> data.leverage,
                  strategy_id   |-> data.strategy_id,
                  reduce_only   |-> None]
    IN  IF same # {}
        THEN LET existing == CHOOSE i \in same : \A j \in same : i <= j
             IN  [trades EXCEPT ![existing] =
                     [@ EXCEPT !.side = data.side,
                               !.entry_price = data.entry_price,
                               !.exit_price = data.exit_price,
                               !.close_fee = IF Truthy(data.close_fee) THEN data.close_fee ELSE @,
                               !.open_fee = IF Truthy(data.open_fee) THEN data.open_fee ELSE @,
                               !.liquidate_fee = IF Truthy(data.liquidate_fee) THEN data.liquidate_fee ELSE @,
                               !.equity_used = IF Truthy(data.equity_used) THEN data.equity_used ELSE @,
                               !.leverage = IF data.leverage # None THEN data.leverage ELSE @,
                               !.strategy_id = data.strategy_id,
                               !.reduce_only = data.reduce_only]]
        ELSE Append(trades, trade)

\* the upserts of one session, in the order of the list
RECURSIVE upsert_closed_trades(_, _, _, _)
upsert_closed_trades(db_trades, trades, batch, wallet_id) ==
    IF batch = <<>> THEN trades
    ELSE upsert_closed_trades(db_trades,
             upsert_closed_trade(db_trades, trades, Head(batch), wallet_id),
             Tail(batch), wallet_id)

-----------------------------------------------------------------------------
(* services/sync_service.py: sync_closed_trades_from_fills.  A fill has    *)
(* createdAt (0: missing), symbol, side, size, price, fee and reduceOnly.  *)

\* the Python type of an Optional[float]
TypeOfOptionalFloat(v) == IF v = None THEN "NoneType" ELSE "float"

\* "a, b = value" raises TypeError unless value is iterable
Unpackable(type) == type \in {"tuple", "list"}

\* the data the loop body builds from one fill
fill_data(o, leverage, equity_used, strategy_id) ==
    [timestamp     |-> o.createdAt,
     side          |-> o.side,
     symbol        |-> normalize_symbol(o.symbol),
     size          |-> o.size,
     entry_price   |-> o.price,
     exit_price    |-> o.price,
     close_fee     |-> IF o.fee # RatInt(0) THEN o.fee ELSE None,
     open_fee      |-> None,
     liquidate_fee |-> None,
     equity_used   |-> equity_used,
     leverage      |-> leverage,
     strategy_id   |-> strategy_id,
     reduce_only   |-> o.reduceOnly]

\* one pass of the loop: the body runs inside try/except, an exception
\* skips the fill.  run.lookups: the leverage looked up for each fill
sync_fill(db_trades, snaps, assignments, run, o, wallet_id) ==
    LET ts == o.createdAt
        sym == normalize_symbol(o.symbol)
        strategy_id == IF wallet_id # 0 /\ sym # <<>>
                       THEN resolve_strategy_id(assignments, wallet_id, sym, ts)
                       ELSE None
        looked_up == get_leverage_at_timestamp(snaps, wallet_id, sym, ts)
        data == fill_data(o, looked_up[1], looked_up[2], strategy_id)
        looked == [run EXCEPT !.lookups =
                      Append(@, [timestamp |-> ts, symbol |-> sym, leverage |-> looked_up])]
    IN  IF o.createdAt = 0 THEN run
        ELSE IF ~Unpackable(TypeOfOptionalFloat(looked_up)) THEN looked
        ELSE IF data.symbol # <<>>
             THEN [looked EXCEPT
                      !.trades = upsert_closed_trade(db_trades, run.trades, data, wallet_id),
                      !.count = run.count + 1]
             ELSE looked

RECURSIVE sync_fills(_, _, _, _, _, _)
sync_fills(db_trades, snaps, assignments, run, fills, wallet_id) ==
    IF fills = <<>> THEN run
    ELSE sync_fills(db_trades, snaps, assignments,
                    sync_fill(db_trades, snaps, assignments, run, Head(fills), wallet_id),
                    Tail(fills), wallet_id)

sync_closed_trades_from_fills(db_trades, snaps, assignments, fills, wallet_id) ==
    sync_fills(db_trades, snaps, assignments,
               [trades |-> db_trades, count |-> 0, lookups |-> <<>>], fills, wallet_id)

-----------------------------------------------------------------------------
(* utils/validation.py *)

MaxSymbolLength == 20

SymbolChars ==
    {LowerChars[i] : i \in 1..Len(LowerChars)} \cup {UpperChars[i] : i \in 1..Len(UpperChars)}
        \cup {"0","1","2","3","4","5","6","7","8","9","-"}

\* validate_symbol: None, or the symbol in upper case.  The symbol is cut
\* to 20 characters; letters, digits and hyphens are allowed
validate_symbol(symbol) ==
    LET sanitized == IF Len(symbol) > MaxSymbolLength
                     THEN SubSeq(symbol, 1, MaxSymbolLength) ELSE symbol
    IN  IF sanitized = <<>> THEN None
        ELSE IF \E i \in 1..Len(sanitized) : sanitized[i] \notin SymbolChars THEN None
        ELSE [i \in 1..Len(sanitized) |-> UpperChar(sanitized[i])]

\* sanitize_float(value, default, min_val=0) on a float
sanitize_nonnegative(value, default) == IF RatLess(value, RatInt(0)) THEN default ELSE value

-----------------------------------------------------------------------------
(* Hyperliquid trades, as fetch_trades returns them: timestamp, asset,     *)
(* side (in lower case), quantity, price, fee                              *)

\* services/wallet_refresh.py: the trade_data of _refresh_hyperliquid_wallet
hl_refresh_trade_data(assignments, wallet_id, t) ==
    LET side == IF t.side \in {"buy", "b", "long"} THEN "BUY" ELSE "SELL"
        strategy_id == IF t.asset # <<>>
                       THEN resolve_strategy_id(assignments, wallet_id, t.asset, t.timestamp)
                       ELSE None
    IN  [timestamp     |-> t.timestamp,
         side          |-> side,
         symbol        |-> t.asset,
         size          |-> t.quantity,
         entry_price   |-> t.price,
         exit_price    |-> t.price,
         close_fee     |-> t.fee,
         open_fee      |-> RatInt(0),
         liquidate_fee |-> RatInt(0),
         equity_used   |-> None,
         leverage      |-> None,
         strategy_id   |-> strategy_id,
         reduce_only   |-> None]

\* app.py: the trade data of wallet_dashboard
hl_dashboard_trade_data(t) ==
    LET norm_side == IF t.side \in {"b", "bid", "buy", "long"} THEN "buy" ELSE "sell"
        symbol == validate_symbol(t.asset)
    IN  [timestamp     |-> t.timestamp,
         side          |-> norm_side,
         symbol        |-> IF symbol # None THEN symbol ELSE <<>>,
         size          |-> sanitize_nonnegative(RatAbs(t.quantity), RatInt(0)),
         entry_price   |-> sanitize_nonnegative(t.price, RatInt(0)),
         exit_price    |-> sanitize_nonnegative(t.price, RatInt(0)),
         close_fee     |-> sanitize_nonnegative(t.fee, None),
         open_fee      |-> None,
         liquidate_fee |-> None,
         equity_used   |-> None,
         leverage      |-> None,
         strategy_id   |-> None,
         reduce_only   |-> None]

-----------------------------------------------------------------------------
(* db/queries.py: get_aggregated_closed_trades, the closed trades of a     *)
(* page.  Of each result the model keeps the row it was made from, the     *)
(* leverage and equityUsed shown, and the snapshot they were borrowed from *)
(* (0: none).                                                              *)

BorrowWindowMinutes == 5

BorrowSizeTolerance == Frac(1, 10)

borrow_for_trade(snaps, agg_trade) ==
    LET Kept(r) == /\ r.wallet_id = agg_trade.wallet_id
                   /\ r.symbol = normalize_symbol(agg_trade.symbol)
                   /\ r.timestamp >= agg_trade.timestamp
                   /\ r.timestamp <= agg_trade.timestamp + Minutes(BorrowWindowMinutes)
                   /\ r.size > 0
        kept == {i \in 1..Len(snaps) : Kept(snaps[i])}
        first == IF kept = {} THEN 0
                 ELSE CHOOSE i \in kept :
                        \A j \in kept : \/ snaps[j].timestamp > snaps[i].timestamp
                                        \/ snaps[j].timestamp = snaps[i].timestamp /\ i <= j
        missing == /\ (agg_trade.leverage = None \/ ~Truthy(agg_trade.equity_used))
                   /\ agg_trade.wallet_id # 0
                   /\ agg_trade.symbol # <<>>
        size_matches ==
            /\ RatLess(RatInt(0), agg_trade.size)
            /\ RatLess(RatDiv(RatAbs(RatSub(RatInt(snaps[first].size), agg_trade.size)),
                              agg_trade.size),
                       BorrowSizeTolerance)
        borrows == missing /\ first # 0 /\ size_matches
        leverage == IF borrows /\ agg_trade.leverage = None /\ snaps[first].leverage # None
                    THEN snaps[first].leverage ELSE agg_trade.leverage
        equity_used == IF borrows /\ ~Truthy(agg_trade.equity_used)
                           /\ snaps[first].equity_used # None
                       THEN snaps[first].equity_used ELSE agg_trade.equity_used
    IN  [leverage |-> leverage,
         equityUsed |-> OrZero(equity_used),
         borrowed_from |-> IF leverage # agg_trade.leverage \/ equity_used # agg_trade.equity_used
                           THEN first ELSE 0]

get_aggregated_closed_trades(aggregated, snaps, wallet_id) ==
    LET rows == SortByTimestampDesc(aggregated,
                    IdList({i \in 1..Len(aggregated) :
                               wallet_id # 0 => aggregated[i].wallet_id = wallet_id}))
    IN  [k \in 1..Len(rows) |->
            [row |-> rows[k]] @@ borrow_for_trade(snaps, aggregated[rows[k]])]

-----------------------------------------------------------------------------
(* The wallets (rows of wallet_configs, status connected) *)

ApexWallet == 1

HyperliquidWallet == 2

Provider(wallet_id) == IF wallet_id = HyperliquidWallet THEN "hyperliquid" ELSE "apex_omni"

\* a call of a function under study, before and after it returned
NoCall == [fn |-> "none", args |-> <<>>, returned |-> FALSE, result |-> <<>>]

PendingCall(fn, args) == [fn |-> fn, args |-> args, returned |-> FALSE, result |-> <<>>]

Returned(call, result) == [call EXCEPT !.returned = TRUE, !.result = result]

Held(wallet_id, timestamp, handler, symbols) ==
    [wallet_id |-> wallet_id, timestamp |-> timestamp, handler |-> handler, held |-> symbols]

-----------------------------------------------------------------------------
(* services/wallet_refresh.py: _refresh_apex_wallet                        *)
(* positions: the enriched positions of get_enriched_account_data, each    *)
(* [symbol, size, entryPrice, currentPrice (0: none), customInitialMarginRate] *)

apex_refresh_position(snaps, equity, wallet_id, refresh_time, initialMargin, pos) ==
    LET size == pos.size
        symbol == normalize_symbol(pos.symbol)
        price == IF pos.currentPrice # 0 THEN pos.currentPrice ELSE pos.entryPrice
        position_size_usd == Abs(size) * price
        estimated == position_size_usd > 0
        result == IF estimated
                  THEN apex_calculate_leverage_from_margin_delta(
                           snaps, equity, wallet_id, symbol, position_size_usd,
                           initialMargin, refresh_time, pos)
                  ELSE <<None, None, "unknown">>
        position_data ==
            [wallet_id              |-> wallet_id,
             timestamp              |-> refresh_time,
             symbol                 |-> symbol,
             size                   |-> sanitize_float(size, 0),
             position_size_usd      |-> sanitize_float(position_size_usd, 0),
             leverage               |-> result[1],
             equity_used            |-> result[2],
             initial_margin_at_open |-> IF Truthy(result[1]) THEN Some(initialMargin) ELSE None,
             calculation_method     |-> result[3]]
    IN  [estimated |-> estimated,
         call |-> [provider |-> "apex_omni", wallet_id |-> wallet_id, symbol |-> symbol,
                   position_size_usd |-> position_size_usd, current_margin |-> initialMargin,
                   timestamp |-> refresh_time, raw |-> pos, result |-> result,
                   seen_snaps |-> Len(snaps), seen_equity |-> Len(equity)],
         row |-> insert_position_snapshot(snaps, position_data)]

\* the position when its calculator call raises: the except branch of the
\* loop leaves leverage None, equity_used None and the method "unknown"
apex_refresh_position_raised(snaps, equity, wallet_id, refresh_time, initialMargin, pos) ==
    LET symbol == normalize_symbol(pos.symbol)
        price == IF pos.currentPrice # 0 THEN pos.currentPrice ELSE pos.entryPrice
        position_size_usd == Abs(pos.size) * price
        result == <<None, None, "unknown">>
        position_data ==
            [wallet_id              |-> wallet_id,
             timestamp              |-> refresh_time,
             symbol                 |-> symbol,
             size                   |-> sanitize_float(pos.size, 0),
             position_size_usd      |-> sanitize_float(position_size_usd, 0),
             leverage               |-> None,
             equity_used            |-> None,
             initial_margin_at_open |-> None,
             calculation_method     |-> "unknown"]
    IN  [estimated |-> FALSE,
         call |-> [provider |-> "apex_omni", wallet_id |-> wallet_id, symbol |-> symbol,
                   position_size_usd |-> position_size_usd, current_margin |-> initialMargin,
                   timestamp |-> refresh_time, raw |-> pos, result |-> result,
                   seen_snaps |-> Len(snaps), seen_equity |-> Len(equity)],
         row |-> insert_position_snapshot(snaps, position_data)]

\* raising: the normalized symbols whose calculator call raises in this run
refresh_apex_wallet_with(wallet_id, gap, initialMargin, positions, fills, raising) ==
    LET refresh_time == now + gap
        equity_data == [wallet_id |-> wallet_id, timestamp |-> refresh_time,
                        initial_margin |-> Some(initialMargin)]
        NonZero(pos) == pos.size # 0
        Raises(pos) == /\ normalize_symbol(pos.symbol) \in raising
                       /\ Abs(pos.size) * (IF pos.currentPrice # 0 THEN pos.currentPrice
                                                                   ELSE pos.entryPrice) > 0
        Process(pos) == IF Raises(pos)
                        THEN apex_refresh_position_raised(position_snapshots, equity_snapshots,
                                 wallet_id, refresh_time, initialMargin, pos)
                        ELSE apex_refresh_position(position_snapshots, equity_snapshots,
                                 wallet_id, refresh_time, initialMargin, pos)
        raised == {normalize_symbol(positions[i].symbol) :
                      i \in {j \in 1..Len(positions) :
                                 positions[j].size # 0 /\ Raises(positions[j])}}
        nonzero == SelectSeq(positions, NonZero)
        Row(p) == p.row
        Call(p) == p.call
        Estimated(p) == p.estimated
    IN  \E processed \in {[i \in 1..Len(nonzero) |-> Process(nonzero[i])]} :
        \* the closed trades: the fills are synced and the legs aggregated in
        \* the session of the snapshots; the aggregation reads the legs of the
        \* database, as the session holds them
        \E synced \in {sync_closed_trades_from_fills(closed_trades, position_snapshots,
                                                     strategy_assignments, fills, wallet_id)} :
        \E aggregation \in {sync_aggregated_trades(SubSeq(synced.trades, 1, Len(closed_trades)),
                                                   aggregated_trades, positions_tbl, wallet_id)} :
        LET estimated == SelectSeq(processed, Estimated)
            positions_stored == Len(processed)
            marker == IF positions_stored = 0
                      THEN <<insert_position_snapshot(position_snapshots,
                                                      NoPositionsData(wallet_id, refresh_time))>>
                      ELSE <<>>
        IN
        /\ now' = refresh_time
        /\ equity_snapshots' = Append(equity_snapshots, insert_equity_snapshot(equity_data))
        /\ position_snapshots' = position_snapshots \o [i \in 1..Len(processed) |-> Row(processed[i])] \o marker
        /\ est_calls' = [i \in 1..Len(estimated) |-> Call(estimated[i])]
        /\ exchange_log' = Append(exchange_log,
               Held(wallet_id, refresh_time, "refresh",
                    {normalize_symbol(positions[i].symbol) :
                         i \in {j \in 1..Len(positions) : positions[j].size # 0}}))
                   \o (IF raised = {} THEN <<>>
                       ELSE <<Held(wallet_id, refresh_time, "raised", raised)>>)
        /\ ncycles' = ncycles + 1
        /\ UNCHANGED passes
        /\ closed_trades' = synced.trades
        /\ aggregated_trades' = aggregation.aggregated
        /\ positions_tbl' = aggregation.positions
        /\ last_call' = Returned(PendingCall("sync_aggregated_trades", <<wallet_id>>),
                                 [trades_synced |-> synced.count,
                                  lookups |-> synced.lookups,
                                  agg_count |-> aggregation.count,
                                  pairs |-> aggregation.pairs])
        /\ UNCHANGED strategy_assignments

refresh_apex_wallet(wallet_id, gap, initialMargin, positions, fills) ==
    refresh_apex_wallet_with(wallet_id, gap, initialMargin, positions, fills, {})

-----------------------------------------------------------------------------
(* services/wallet_refresh.py: _refresh_hyperliquid_wallet                 *)
(* positions_raw: fetch_open_positions(), each                             *)
(* [asset, quantity (> 0), price, position_value]                          *)

hl_refresh_position(snaps, equity, wallet_id, refresh_time, current_margin_used, p) ==
    LET asset == p.asset
        size == p.quantity
        entry_price == p.price
        position_size_usd == Abs(size * entry_price)
        estimated == position_size_usd > 0
        result == IF estimated
                  THEN hl_calculate_leverage_from_margin_delta(
                           snaps, equity, wallet_id, asset, position_size_usd,
                           current_margin_used, refresh_time)
                  ELSE <<None, None, "unknown">>
        position_data ==
            [wallet_id              |-> wallet_id,
             timestamp              |-> refresh_time,
             symbol                 |-> asset,
             size                   |-> Abs(size),
             position_size_usd      |-> position_size_usd,
             leverage               |-> result[1],
             equity_used            |-> result[2],
             initial_margin_at_open |-> None,
             calculation_method     |-> result[3]]
    IN  [estimated |-> estimated,
         call |-> [provider |-> "hyperliquid", wallet_id |-> wallet_id, symbol |-> asset,
                   position_size_usd |-> position_size_usd,
                   current_margin |-> current_margin_used,
                   timestamp |-> refresh_time, raw |-> p, result |-> result,
                   seen_snaps |-> Len(snaps), seen_equity |-> Len(equity)],
         row |-> insert_position_snapshot(snaps, position_data)]

\* raising: the assets whose calculator call raises in this run;
\* failing_trades: the trades (by position in hl_trades) whose upsert raises
refresh_hyperliquid_wallet_with(wallet_id, gap, current_margin_used, positions_raw, hl_trades, raising, failing_trades) ==
    LET refresh_time == now + gap
        held == {positions_raw[i].asset : i \in 1..Len(positions_raw)}
        raised == {positions_raw[i].asset :
                      i \in {j \in 1..Len(positions_raw) :
                                 /\ positions_raw[j].asset \in raising
                                 /\ Abs(positions_raw[j].quantity * positions_raw[j].price) > 0}}
        kept == {i \in 1..Len(hl_trades) : i \notin failing_trades}
        upserted == IdList(kept)
        equity_data == [wallet_id |-> wallet_id, timestamp |-> refresh_time,
                        initial_margin |-> Some(current_margin_used)]
        Process(p) == hl_refresh_position(position_snapshots, equity_snapshots,
                                          wallet_id, refresh_time, current_margin_used, p)
        Row(p) == p.row
        Call(p) == p.call
        Estimated(p) == p.estimated
    IN  IF raised # {}
        THEN \* the exception leaves the loop and the session: get_session
             \* rolls back, the function returns (False, message)
             /\ now' = refresh_time
             /\ ncycles' = ncycles + 1
             /\ UNCHANGED passes
             /\ exchange_log' = exchange_log \o <<Held(wallet_id, refresh_time, "refresh", held),
                                                  Held(wallet_id, refresh_time, "raised", raised)>>
             /\ UNCHANGED <<position_snapshots, equity_snapshots, est_calls, tradeVars,
                            strategy_assignments, last_call>>
        ELSE
        \E processed \in {[i \in 1..Len(positions_raw) |-> Process(positions_raw[i])]} :
        LET estimated == SelectSeq(processed, Estimated)
            positions_stored == Len(processed)
            marker == IF positions_stored = 0
                      THEN <<insert_position_snapshot(position_snapshots,
                                                      NoPositionsData(wallet_id, refresh_time))>>
                      ELSE <<>>
        IN
        /\ now' = refresh_time
        /\ equity_snapshots' = Append(equity_snapshots, insert_equity_snapshot(equity_data))
        /\ position_snapshots' = position_snapshots \o [i \in 1..Len(processed) |-> Row(processed[i])] \o marker
        /\ est_calls' = [i \in 1..Len(estimated) |-> Call(estimated[i])]
        /\ exchange_log' = Append(exchange_log,
               Held(wallet_id, refresh_time, "refresh",
                    {positions_raw[i].asset : i \in 1..Len(positions_raw)}))
        /\ ncycles' = ncycles + 1
        /\ UNCHANGED passes
        /\ closed_trades' = upsert_closed_trades(closed_trades, closed_trades,
               [i \in 1..Len(upserted) |->
                   hl_refresh_trade_data(strategy_assignments, wallet_id,
                                         hl_trades[upserted[i]])],
               wallet_id)
        /\ last_call' = IF hl_trades = <<>> THEN last_call
                        ELSE Returned(PendingCall("upsert_closed_trade",
                                                  <<wallet_id, hl_trades, failing_trades>>),
                                      Len(upserted))
        /\ UNCHANGED <<aggregated_trades, positions_tbl, strategy_assignments>>

refresh_hyperliquid_wallet(wallet_id, gap, current_margin_used, positions_raw, hl_trades) ==
    refresh_hyperliquid_wallet_with(wallet_id, gap, current_margin_used, positions_raw,
                                    hl_trades, {}, {})

\* refresh_wallet_data: dispatch on the wallet's provider
refresh_wallet_data(wallet_id, gap, margin, positions, trades) ==
    IF Provider(wallet_id) = "hyperliquid"
    THEN refresh_hyperliquid_wallet(wallet_id, gap, margin, positions, trades)
    ELSE refresh_apex_wallet(wallet_id, gap, margin, positions, trades)

\* what fails in one run: the API client cannot be created (client), the
\* calculator raises for some symbols, the upsert raises for some trades
NoFailure == [client |-> FALSE, symbols |-> {}, trades |-> {}]

\* refresh_wallet_data with failures: a run whose client cannot be created
\* returns (False, message) before anything is fetched or stored
refresh_wallet_data_with(wallet_id, gap, margin, positions, trades, failure) ==
    IF failure.client
    THEN /\ now' = now + gap
         /\ ncycles' = ncycles + 1
         /\ UNCHANGED passes
         /\ exchange_log' = Append(exchange_log, Held(wallet_id, now + gap, "failed", {}))
         /\ UNCHANGED <<position_snapshots, equity_snapshots, est_calls, tradeVars,
                        strategy_assignments, last_call>>
    ELSE IF Provider(wallet_id) = "hyperliquid"
    THEN refresh_hyperliquid_wallet_with(wallet_id, gap, margin, positions, trades,
                                         failure.symbols, failure.trades)
    ELSE refresh_apex_wallet_with(wallet_id, gap, margin, positions, trades, failure.symbols)

-----------------------------------------------------------------------------
(* app.py: wallet_dashboard, the snapshot block of a page load.  The       *)
(* equity snapshot takes one utcnow(), the position snapshots the next.    *)

\* the try block around a calculator call: the values are stored into
\* position_data, then the log line formats the leverage with ":.1f",
\* which raises for None, and the handler sets the method to "error"
dashboard_override(preset_leverage, preset_equity_used, result) ==
    [leverage    |-> IF result[1] # None THEN result[1] ELSE preset_leverage,
     equity_used |-> IF result[2] # None THEN result[2] ELSE preset_equity_used,
     calculation_method |-> IF result[1] # None THEN result[3] ELSE "error"]

dashboard_apex_position(snaps, equity, wallet_id, timestamp, initialMargin, pos) ==
    LET enriched == enrich_positions(pos)
        symbol == normalize_symbol(pos.symbol)
        price == IF pos.currentPrice # 0 THEN pos.currentPrice ELSE pos.entryPrice
        position_size_usd == sanitize_float(pos.size * price, 0)
        result == apex_calculate_leverage_from_margin_delta(
                      snaps, equity, wallet_id, symbol, position_size_usd,
                      initialMargin, timestamp, pos)
        stored == dashboard_override(
                      IF Truthy(enriched.leverage) THEN enriched.leverage ELSE None,
                      IF Truthy(enriched.equityUsed) THEN enriched.equityUsed ELSE None,
                      result)
        position_data ==
            [wallet_id              |-> wallet_id,
             timestamp              |-> timestamp,
             symbol                 |-> symbol,
             size                   |-> sanitize_float(pos.size, 0),
             position_size_usd      |-> position_size_usd,
             leverage               |-> stored.leverage,
             equity_used            |-> stored.equity_used,
             initial_margin_at_open |-> Some(initialMargin),
             calculation_method     |-> stored.calculation_method]
    IN  [call |-> [provider |-> "apex_omni", wallet_id |-> wallet_id, symbol |-> symbol,
                   position_size_usd |-> position_size_usd, current_margin |-> initialMargin,
                   timestamp |-> timestamp, raw |-> pos, result |-> result,
                   seen_snaps |-> Len(snaps), seen_equity |-> Len(equity)],
         row |-> insert_position_snapshot(snaps, position_data)]

dashboard_hyperliquid_position(snaps, equity, wallet_id, timestamp, total_margin_used, account_equity, p) ==
    LET size == Abs(p.quantity)
        position_size_usd == Abs(p.quantity * p.price)
        position_value == IF p.position_value > 0 THEN Some(p.position_value) ELSE None
        preset == IF account_equity > 0 /\ position_size_usd > 0
                  THEN estimate_leverage_hyperliquid(position_size_usd, account_equity,
                                                     position_value)
                  ELSE None
        symbol == normalize_symbol(p.asset)
        snapshot_size_usd == sanitize_float(size * p.price, 0)
        result == hl_calculate_leverage_from_margin_delta(
                      snaps, equity, wallet_id, symbol, snapshot_size_usd,
                      total_margin_used, timestamp)
        stored == dashboard_override(IF Truthy(preset) THEN preset ELSE None, None, result)
        position_data ==
            [wallet_id              |-> wallet_id,
             timestamp              |-> timestamp,
             symbol                 |-> symbol,
             size                   |-> sanitize_float(size, 0),
             position_size_usd      |-> snapshot_size_usd,
             leverage               |-> stored.leverage,
             equity_used            |-> stored.equity_used,
             initial_margin_at_open |-> Some(total_margin_used),
             calculation_method     |-> stored.calculation_method]
    IN  [call |-> [provider |-> "hyperliquid", wallet_id |-> wallet_id, symbol |-> symbol,
                   position_size_usd |-> snapshot_size_usd,
                   current_margin |-> total_margin_used,
                   timestamp |-> timestamp, raw |-> p, result |-> result,
                   seen_snaps |-> Len(snaps), seen_equity |-> Len(equity)],
         row |-> insert_position_snapshot(snaps, position_data)]

\* positions: enriched Apex positions, or Hyperliquid open positions
\* account_equity: marginSummary.accountValue (Hyperliquid only)
wallet_dashboard(wallet_id, gap, margin_used, account_equity, positions, hl_trades_raw) ==
    LET equity_time == now + gap
        timestamp == equity_time + 1
        snapshot_data == [wallet_id |-> wallet_id, timestamp |-> equity_time,
                          initial_margin |-> Some(margin_used)]
        hl == Provider(wallet_id) = "hyperliquid"
        Size(pos) == IF hl THEN Abs(pos.quantity) ELSE pos.size
        Symbol(pos) == normalize_symbol(IF hl THEN pos.asset ELSE pos.symbol)
        NonZero(pos) == Size(pos) # 0
        Process(pos) ==
            IF hl
            THEN dashboard_hyperliquid_position(position_snapshots, equity_snapshots,
                     wallet_id, timestamp, margin_used, account_equity, pos)
            ELSE dashboard_apex_position(position_snapshots, equity_snapshots,
                     wallet_id, timestamp, margin_used, pos)
        nonzero == SelectSeq(positions, NonZero)
        Row(p) == p.row
        Call(p) == p.call
    IN  \E processed \in {[i \in 1..Len(nonzero) |-> Process(nonzero[i])]} :
        /\ now' = timestamp
        /\ equity_snapshots' = Append(equity_snapshots, insert_equity_snapshot(snapshot_data))
        /\ position_snapshots' = position_snapshots \o [i \in 1..Len(processed) |-> Row(processed[i])]
        /\ est_calls' = [i \in 1..Len(processed) |-> Call(processed[i])]
        /\ exchange_log' = Append(exchange_log,
               Held(wallet_id, timestamp, "dashboard",
                    {Symbol(positions[i]) :
                         i \in {j \in 1..Len(positions) : NonZero(positions[j])}}))
        /\ ncycles' = ncycles + 1
        /\ UNCHANGED passes
        /\ closed_trades' =
               IF hl
               THEN upsert_closed_trades(closed_trades, closed_trades,
                        [i \in 1..Len(hl_trades_raw) |-> hl_dashboard_trade_data(hl_trades_raw[i])],
                        wallet_id)
               ELSE closed_trades
        /\ last_call' = Returned(PendingCall("get_aggregated_closed_trades", <<wallet_id>>),
                                 get_aggregated_closed_trades(aggregated_trades,
                                     position_snapshots', wallet_id))
        /\ UNCHANGED <<aggregated_trades, positions_tbl, strategy_assignments>>

-----------------------------------------------------------------------------
(* Inputs: what the exchanges return *)

BTCUSDT == <<"B","T","C","U","S","D","T">>

ETH_USDT == <<"E","T","H","-","U","S","D","T">>

BTC == <<"B","T","C">>

ETH == <<"E","T","H">>

ApexPosition(symbol, size, entryPrice, currentPrice, rate) ==
    [symbol |-> symbol, size |-> size, entryPrice |-> entryPrice,
     currentPrice |-> currentPrice, customInitialMarginRate |-> rate]

HlPosition(asset, quantity, price) ==
    [asset |-> asset, quantity |-> quantity, price |-> price,
     position_value |-> quantity * price]

\* all the position lists that hold, in the order of the given choices, at
\* most one position of each choice set
RECURSIVE Payloads(_)
Payloads(choices) ==
    IF choices = <<>> THEN {<<>>}
    ELSE LET rest == Payloads(Tail(choices))
         IN  rest \cup {<<c>> \o r : c \in Head(choices), r \in rest}

Init ==
    /\ position_snapshots = <<>>
    /\ equity_snapshots = <<>>
    /\ exchange_log = <<>>
    /\ est_calls = <<>>
    /\ passes = NoPasses
    /\ now = 0
    /\ ncycles = 0
    /\ closed_trades = <<>>
    /\ aggregated_trades = <<>>
    /\ positions_tbl = <<>>
    /\ strategy_assignments = <<>>
    /\ last_call = NoCall

-----------------------------------------------------------------------------
(* The Apex wallet: scheduled refreshes and page loads *)

ApexGaps == {Minutes(5), Minutes(30), Minutes(65)}

\* a page load comes between two scheduled refreshes
PageLoadGaps == {Minutes(2), Minutes(30)}

Margins == {100, 150}

ApexPayloads ==
    Payloads(<< {ApexPosition(BTCUSDT, 1, 3000, 0, Frac(1, 20))},
                {ApexPosition(ETH_USDT, 1, 40, 45, RatInt(0))} >>)

RefreshApex ==
    /\ ncycles < MaxCycles
    /\ \E gap \in ApexGaps, margin \in Margins, positions \in ApexPayloads :
           refresh_wallet_data(ApexWallet, gap, margin, positions, <<>>)

DashboardApex ==
    /\ ncycles < MaxCycles
    /\ \E gap \in PageLoadGaps, margin \in Margins, positions \in ApexPayloads :
           wallet_dashboard(ApexWallet, gap, margin, 0, positions, <<>>)

NextApex == RefreshApex \/ DashboardApex

SpecApex == Init /\ [][NextApex]_vars

-----------------------------------------------------------------------------
(* The Apex wallet with signed position sizes: open, close and reopen *)

SessionGaps == {Minutes(5), Minutes(30)}

SessionPayloads ==
    Payloads(<< {ApexPosition(BTCUSDT, 1, 3000, 0, RatInt(0)),
                 ApexPosition(BTCUSDT, -1, 3000, 0, RatInt(0))},
                {ApexPosition(ETH_USDT, 1, 40, 45, RatInt(0))} >>)

RefreshSessions ==
    /\ ncycles < MaxCyclesSessions
    /\ \E gap \in SessionGaps, positions \in SessionPayloads :
           refresh_wallet_data(ApexWallet, gap, 100, positions, <<>>)

DashboardSessions ==
    /\ ncycles < MaxCyclesSessions
    /\ \E gap \in SessionGaps, positions \in SessionPayloads :
           wallet_dashboard(ApexWallet, gap, 100, 0, positions, <<>>)

NextSessions == RefreshSessions \/ DashboardSessions

SpecSessions == Init /\ [][NextSessions]_vars

-----------------------------------------------------------------------------
(* The Hyperliquid wallet: scheduled refreshes and page loads *)

HyperliquidGaps == {Minutes(5), Minutes(30), Hours(24) + Minutes(5)}

HyperliquidPayloads ==
    Payloads(<< {HlPosition(BTC, 1, 3000), HlPosition(BTC, 2, 3000)},
                {HlPosition(ETH, 1, 40)} >>)

AccountEquity == 1000

RefreshHyperliquid ==
    /\ ncycles < MaxCycles
    /\ \E gap \in HyperliquidGaps, margin \in Margins, positions \in HyperliquidPayloads :
           refresh_wallet_data(HyperliquidWallet, gap, margin, positions, <<>>)

DashboardHyperliquid ==
    /\ ncycles < MaxCycles
    /\ \E gap \in HyperliquidGaps, margin \in Margins, positions \in HyperliquidPayloads :
           wallet_dashboard(HyperliquidWallet, gap, margin, AccountEquity, positions, <<>>)

NextHyperliquid == RefreshHyperliquid \/ DashboardHyperliquid

SpecHyperliquid == Init /\ [][NextHyperliquid]_vars

-----------------------------------------------------------------------------
(* The Hyperliquid wallet on the 30-minute schedule: positions that close  *)
(* and open again                                                          *)

ReopenPayloads == Payloads(<< {HlPosition(BTC, 1, 3000)}, {HlPosition(ETH, 1, 40)} >>)

RefreshReopen ==
    /\ ncycles < MaxCyclesReopen
    /\ \E margin \in Margins, positions \in ReopenPayloads :
           refresh_wallet_data(HyperliquidWallet, Minutes(30), margin, positions, <<>>)

NextReopen == RefreshReopen

SpecReopen == Init /\ [][NextReopen]_vars

-----------------------------------------------------------------------------
(* Properties.  The statements below are written from the specification's  *)
(* words, over the tables and the recorded calculator calls.               *)

\* the tables as the calculator call c saw them
SeenSnaps(c) == SubSeq(position_snapshots, 1, c.seen_snaps)

SeenEquity(c) == SubSeq(equity_snapshots, 1, c.seen_equity)

\* the non-null margin values of the call's wallet recorded strictly before
\* the call's timestamp and no longer than window before it
KnownMargins(c, window) ==
    {i \in 1..c.seen_equity :
        /\ equity_snapshots[i].wallet_id = c.wallet_id
        /\ equity_snapshots[i].initial_margin # None
        /\ equity_snapshots[i].timestamp < c.timestamp
        /\ equity_snapshots[i].timestamp >= c.timestamp - window}

\* the most recent of them, or None
PreviousMarginOf(c, window) ==
    LET known == KnownMargins(c, window)
    IN  IF known = {} THEN None
        ELSE equity_snapshots[CHOOSE i \in known : \A j \in known :
                 equity_snapshots[j].timestamp <= equity_snapshots[i].timestamp].initial_margin

ApexCalls == {i \in 1..Len(est_calls) : est_calls[i].provider = "apex_omni"}

HyperliquidCalls == {i \in 1..Len(est_calls) : est_calls[i].provider = "hyperliquid"}

\* the margin-rate result of a payload: 1/r and |size| * entryPrice * r
MarginRateResult(raw) ==
    LET r == raw.customInitialMarginRate
    IN  IF r[1] > 0
        THEN <<Frac(r[2], r[1]), Frac(Abs(raw.size) * raw.entryPrice * r[1], r[2]), "margin_rate">>
        ELSE <<None, None, "unknown">>

\* the margin-delta method yields no value for an Apex call: the position
\* is not new, there is no previous margin, or the delta is not positive
ApexNoDelta(c) ==
    LET prev == PreviousMarginOf(c, Hours(ApexMarginLookbackHours))
    IN  \/ ~is_new_position(SeenSnaps(c), c.wallet_id, c.symbol, c.timestamp)
        \/ prev = None
        \/ c.current_margin - prev[1] <= 0

-----------------------------------------------------------------------------
(* Sessions, read from the snapshot table *)

\* the snapshot rows a scheduled refresh wrote
RefreshRows ==
    {i \in 1..Len(position_snapshots) :
        \E e \in 1..Len(exchange_log) :
            /\ exchange_log[e].handler = "refresh"
            /\ exchange_log[e].wallet_id = position_snapshots[i].wallet_id
            /\ exchange_log[e].timestamp = position_snapshots[i].timestamp}

SameKey(i, j) ==
    /\ position_snapshots[i].wallet_id = position_snapshots[j].wallet_id
    /\ position_snapshots[i].symbol = position_snapshots[j].symbol

\* rows i < j of one key, both with size > 0 and no size-0 row of the key
\* between them: two snapshots of one session
SameSession(i, j) ==
    /\ i < j
    /\ SameKey(i, j)
    /\ position_snapshots[i].size > 0
    /\ position_snapshots[j].size > 0
    /\ \A k \in i..j : SameKey(i, k) => position_snapshots[k].size > 0

\* C1: session leverage freeze.  Among the snapshots the refresh paths
\* record, once a snapshot of a session carries a non-null leverage, every
\* later snapshot of the session carries the same leverage, equity_used and
\* calculation_method.
C1_SessionLeverageFreeze ==
    \A i, j \in RefreshRows :
        (SameSession(i, j) /\ position_snapshots[i].leverage # None)
            => /\ position_snapshots[j].leverage = position_snapshots[i].leverage
               /\ position_snapshots[j].equity_used = position_snapshots[i].equity_used
               /\ position_snapshots[j].calculation_method
                      = position_snapshots[i].calculation_method

\* the rows of the key of row j that were recorded before it
EarlierRows(j) == {k \in 1..(j - 1) : SameKey(k, j)}

\* the most recent of them (rows are recorded in timestamp order)
PriorRow(j) == position_snapshots[CHOOSE k \in EarlierRows(j) : \A m \in EarlierRows(j) : m <= k]

\* row j is the first snapshot of a session
OpensSession(j) ==
    /\ position_snapshots[j].size > 0
    /\ EarlierRows(j) = {} \/ PriorRow(j).size = 0

\* C2: a snapshot with size > 0 whose most recent earlier snapshot of the
\* same (wallet, symbol) has size > 0 stores that snapshot's opened_at;
\* hence all snapshots of a session share one opened_at, which is the
\* timestamp of the session's first snapshot.
C2_OpenedAtInherited ==
    \A j \in 1..Len(position_snapshots) :
        LET row == position_snapshots[j]
        IN  /\ (row.size > 0 /\ EarlierRows(j) # {} /\ PriorRow(j).size > 0)
                   => row.opened_at = PriorRow(j).opened_at
            /\ \A i \in 1..Len(position_snapshots) :
                   ((i = j \/ SameSession(i, j)) /\ OpensSession(i))
                       => row.opened_at = Some(position_snapshots[i].timestamp)

\* C3: a snapshot with size > 0 whose key has no earlier snapshot, or whose
\* most recent earlier snapshot has size 0, starts a new session: the
\* stored opened_at is the snapshot's own timestamp, also when an older
\* snapshot with size > 0 lies before the size-0 snapshot.
C3_NewSessionOpenedAt ==
    \A j \in 1..Len(position_snapshots) :
        OpensSession(j)
            => position_snapshots[j].opened_at = Some(position_snapshots[j].timestamp)

-----------------------------------------------------------------------------
(* Closing and reopening, read from what the exchange reported *)

\* the scheduled refreshes, by their place in the log
RefreshCycles == {e \in 1..Len(exchange_log) : exchange_log[e].handler = "refresh"}

\* refresh e2 is the refresh cycle of its wallet that follows refresh e1
NextCycle(e1, e2) ==
    /\ e1 < e2
    /\ exchange_log[e1].wallet_id = exchange_log[e2].wallet_id
    /\ \A e \in RefreshCycles :
           (e1 < e /\ e < e2) => exchange_log[e].wallet_id # exchange_log[e1].wallet_id

\* the snapshot table holds a size-0 row of the key at that timestamp
ClosingSentinel(wallet_id, symbol, timestamp) ==
    \E i \in 1..Len(position_snapshots) :
        /\ position_snapshots[i].wallet_id = wallet_id
        /\ position_snapshots[i].symbol = symbol
        /\ position_snapshots[i].timestamp = timestamp
        /\ position_snapshots[i].size = 0

\* C4: when a (wallet, symbol) that had an open position in the previous
\* refresh cycle has no position in the current one, the refresh records a
\* size-0 closing sentinel for that (wallet, symbol) in that cycle, also
\* when the wallet still holds other positions.
C4_ClosingSentinel ==
    \A e1, e2 \in RefreshCycles :
        NextCycle(e1, e2)
            => \A symbol \in exchange_log[e1].held \ exchange_log[e2].held :
                   ClosingSentinel(exchange_log[e2].wallet_id, symbol,
                                   exchange_log[e2].timestamp)

\* the lookback window of a wallet's margin-delta method
MarginWindow(wallet_id) ==
    IF Provider(wallet_id) = "hyperliquid"
    THEN Hours(HyperliquidMarginLookbackHours)
    ELSE Hours(ApexMarginLookbackHours)

\* the account margin recorded with the handler run e
MarginAt(e) ==
    LET i == CHOOSE i \in 1..Len(equity_snapshots) :
                 /\ equity_snapshots[i].wallet_id = exchange_log[e].wallet_id
                 /\ equity_snapshots[i].timestamp <= exchange_log[e].timestamp
                 /\ \A j \in 1..Len(equity_snapshots) :
                        equity_snapshots[j].timestamp <= exchange_log[e].timestamp => j <= i
    IN  equity_snapshots[i].initial_margin[1]

\* the most recent non-null margin of the wallet recorded before the
\* handler run e and inside the lookback window, or None
MarginBefore(e) ==
    LET w == exchange_log[e].wallet_id
        t == exchange_log[e].timestamp
        known == {i \in 1..Len(equity_snapshots) :
                     /\ equity_snapshots[i].wallet_id = w
                     /\ equity_snapshots[i].initial_margin # None
                     /\ \E f \in 1..(e - 1) :
                            equity_snapshots[i].timestamp <= exchange_log[f].timestamp
                     /\ equity_snapshots[i].timestamp >= t - MarginWindow(w)}
    IN  IF known = {} THEN None
        ELSE equity_snapshots[CHOOSE i \in known : \A j \in known : j <= i].initial_margin

\* the symbol opens a session in refresh e after an earlier session of the
\* key has closed: held now, not held in the wallet's previous refresh
\* cycle, held in some cycle before
Reopens(e, symbol) ==
    /\ symbol \in exchange_log[e].held
    /\ \E p \in RefreshCycles :
           /\ NextCycle(p, e)
           /\ symbol \notin exchange_log[p].held
           /\ \E q \in RefreshCycles :
                  /\ q < p
                  /\ exchange_log[q].wallet_id = exchange_log[e].wallet_id
                  /\ symbol \in exchange_log[q].held

\* the snapshot the handler run e recorded for the symbol
SnapshotOf(e, symbol) ==
    position_snapshots[CHOOSE i \in 1..Len(position_snapshots) :
        /\ position_snapshots[i].wallet_id = exchange_log[e].wallet_id
        /\ position_snapshots[i].symbol = symbol
        /\ position_snapshots[i].timestamp = exchange_log[e].timestamp]

\* the row carries the margin delta of the handler run e
FromDeltaAt(e, row) ==
    LET prev == MarginBefore(e)
    IN  /\ prev # None
        /\ MarginAt(e) - prev[1] > 0
        /\ row.leverage = Frac(row.position_size_usd, MarginAt(e) - prev[1])
        /\ row.equity_used = RatInt(MarginAt(e) - prev[1])

\* C5: each session is estimated on its own.  The snapshot that opens a
\* session after an earlier session of the same (wallet, symbol) has closed
\* carries the margin delta at this session's open, or no leverage and no
\* equity_used; it is never given the values of the earlier session.
C5_SessionEstimatedOnItsOwn ==
    \A e \in RefreshCycles : \A symbol \in exchange_log[e].held :
        Reopens(e, symbol)
            => LET row == SnapshotOf(e, symbol)
               IN  \/ row.leverage = None /\ row.equity_used = None
                   \/ FromDeltaAt(e, row)

-----------------------------------------------------------------------------
(* Estimates, read from the calculator calls of the last handler run *)

\* the snapshot stored for the calculator call c
StoredFor(c) ==
    position_snapshots[CHOOSE i \in 1..Len(position_snapshots) :
        /\ position_snapshots[i].wallet_id = c.wallet_id
        /\ position_snapshots[i].symbol = c.symbol
        /\ position_snapshots[i].timestamp = c.timestamp]

\* C6: never fabricate.  Every stored snapshot with a non-null leverage has
\* calculation_method margin_delta or margin_rate, and a snapshot whose
\* estimate is unknown is stored with leverage null and equity_used null,
\* by the scheduled refresh and by the page load alike.
C6_NeverFabricate ==
    /\ \A i \in 1..Len(position_snapshots) :
           position_snapshots[i].leverage # None
               => position_snapshots[i].calculation_method \in {"margin_delta", "margin_rate"}
    /\ \A k \in 1..Len(est_calls) :
           est_calls[k].result[3] = "unknown"
               => /\ StoredFor(est_calls[k]).leverage = None
                  /\ StoredFor(est_calls[k]).equity_used = None

\* the call estimates a session's first snapshot: the key had no snapshot
\* before, or its most recent one had size 0
NewlyOpened(c) ==
    LET earlier == {i \in 1..c.seen_snaps :
                       /\ position_snapshots[i].wallet_id = c.wallet_id
                       /\ position_snapshots[i].symbol = c.symbol}
    IN  \/ earlier = {}
        \/ position_snapshots[CHOOSE i \in earlier : \A j \in earlier : j <= i].size = 0

\* C7: margin delta.  For a newly opened position whose previous total
\* margin M_prev is found, with M_now - M_prev > 0 the estimator returns
\* equity_used = M_now - M_prev, leverage = notional / (M_now - M_prev) and
\* method margin_delta, also when the delta is above the notional.
C7_MarginDelta ==
    \A k \in 1..Len(est_calls) :
        LET c == est_calls[k]
            prev == PreviousMarginOf(c, MarginWindow(c.wallet_id))
        IN  (NewlyOpened(c) /\ prev # None /\ c.current_margin - prev[1] > 0)
                => c.result = <<Frac(c.position_size_usd, c.current_margin - prev[1]),
                                RatInt(c.current_margin - prev[1]),
                                "margin_delta">>

\* one run estimated a position of notional 3000 that opened while the
\* margin went from 100 to 150 as leverage 60 on equity 50, and one whose
\* margin delta is above its notional by the margin delta all the same
C7_Witness ==
    \E k, m \in 1..Len(est_calls) :
        /\ NewlyOpened(est_calls[k])
        /\ PreviousMarginOf(est_calls[k], MarginWindow(est_calls[k].wallet_id)) = Some(100)
        /\ est_calls[k].current_margin = 150
        /\ est_calls[k].position_size_usd = 3000
        /\ est_calls[k].result = <<RatInt(60), RatInt(50), "margin_delta">>
        /\ NewlyOpened(est_calls[m])
        /\ est_calls[m].position_size_usd < 50
        /\ est_calls[m].result[2] = RatInt(50)
        /\ est_calls[m].result[3] = "margin_delta"

\* the session of the call has no resolved snapshot whose values could be
\* carried forward: no snapshot of the key seen by the call has a leverage
Unresolved(c) ==
    \A i \in 1..c.seen_snaps :
        (position_snapshots[i].wallet_id = c.wallet_id /\ position_snapshots[i].symbol = c.symbol)
            => position_snapshots[i].leverage = None

\* C8: the margin-delta method takes as previous margin only the most
\* recent non-null margin of the same wallet recorded strictly before the
\* snapshot timestamp and inside the lookback window (1 hour for Apex, 24
\* hours for Hyperliquid); with no such value the result never has method
\* margin_delta, and no default stands in for the missing margin.
C8_PreviousMargin ==
    \A k \in 1..Len(est_calls) :
        LET c == est_calls[k]
            prev == PreviousMarginOf(c, MarginWindow(c.wallet_id))
        IN  (Unresolved(c) /\ c.result[3] = "margin_delta")
                => /\ prev # None
                   /\ c.result[2] = RatInt(c.current_margin - prev[1])

\* the calls in est_calls are those of a scheduled refresh
LastRunIsRefresh ==
    /\ exchange_log # <<>>
    /\ exchange_log[Len(exchange_log)].handler = "refresh"

\* C10: when two different symbols of one wallet open in the same refresh
\* cycle, the whole margin delta of the cycle is attributed to the position
\* processed first and is not attributed a second time to the other.
C10_DeltaAttributedOnce ==
    LastRunIsRefresh =>
        \A k, m \in 1..Len(est_calls) :
            LET first == est_calls[k]
                other == est_calls[m]
                prev == PreviousMarginOf(first, MarginWindow(first.wallet_id))
            IN  (/\ k < m
                 /\ first.wallet_id = other.wallet_id
                 /\ first.symbol # other.symbol
                 /\ NewlyOpened(first)
                 /\ NewlyOpened(other)
                 /\ prev # None
                 /\ first.current_margin - prev[1] > 0)
                    => /\ first.result[3] = "margin_delta"
                       /\ first.result[2] = RatInt(first.current_margin - prev[1])
                       /\ ~(/\ other.result[3] = "margin_delta"
                            /\ other.result[2] = RatInt(first.current_margin - prev[1]))

-----------------------------------------------------------------------------
(* utils/data_utils.py: normalize_symbol, applied to the spellings of one  *)
(* instrument                                                              *)

\* str.lower() on one character
LowerChar(c) ==
    IF \E i \in 1..Len(UpperChars) : UpperChars[i] = c
    THEN LowerChars[CHOOSE i \in 1..Len(UpperChars) : UpperChars[i] = c]
    ELSE c

BTC_USDT == <<"B","T","C","_","U","S","D","T">>

BTC_DASH_USDT == <<"B","T","C","-","U","S","D","T">>

\* a spelling in every letter case
CaseVariants(s) ==
    {[i \in 1..Len(s) |-> IF i \in lower THEN LowerChar(s[i]) ELSE s[i]] :
         lower \in SUBSET (1..Len(s))}

Spellings ==
    CaseVariants(BTC) \cup CaseVariants(BTC_USDT) \cup CaseVariants(BTCUSDT)
        \cup CaseVariants(BTC_DASH_USDT)

InitSymbols ==
    /\ position_snapshots = <<>>
    /\ equity_snapshots = <<>>
    /\ exchange_log = <<>>
    /\ est_calls = <<>>
    /\ passes = NoPasses
    /\ now = 0
    /\ ncycles = 0
    /\ closed_trades = <<>>
    /\ aggregated_trades = <<>>
    /\ positions_tbl = <<>>
    /\ strategy_assignments = <<>>
    /\ \E symbol \in Spellings : last_call = PendingCall("normalize_symbol", <<symbol>>)

NormalizeSymbol ==
    /\ last_call.fn = "normalize_symbol"
    /\ ~last_call.returned
    /\ last_call' = Returned(last_call, normalize_symbol(last_call.args[1]))
    /\ UNCHANGED <<snapshotVars, now, ncycles, tradeVars, strategy_assignments, passes>>

NextSymbols == NormalizeSymbol

SpecSymbols == InitSymbols /\ [][NextSymbols]_vars

\* C20: normalize_symbol maps every spelling of one instrument (BTC,
\* BTC_USDT, BTCUSDT, BTC-USDT, in any letter case) to the canonical
\* BASE-QUOTE string BTC-USDT.
C20_CanonicalSymbol ==
    (last_call.fn = "normalize_symbol" /\ last_call.returned)
        => last_call.result = BTC_DASH_USDT

-----------------------------------------------------------------------------
(* The closed trades of the Apex wallet: the legs in the database, the     *)
(* scheduled refresh that aggregates them, and sessions that upsert legs   *)

MaxTradeCycles == 3

MaxLegs == 3

Leg(wallet_id, timestamp, symbol, side, size, price, open_fee, close_fee, reduce_only) ==
    [wallet_id |-> wallet_id, timestamp |-> timestamp, side |-> side, symbol |-> symbol,
     size |-> size, entry_price |-> price, exit_price |-> price,
     close_fee |-> close_fee, open_fee |-> open_fee, liquidate_fee |-> None,
     equity_used |-> None, leverage |-> None, strategy_id |-> None,
     reduce_only |-> reduce_only]

\* the data of a leg, as a caller of upsert_closed_trade passes it
LegData(leg) == [k \in DOMAIN leg \ {"wallet_id"} |-> leg[k]]

OpenLong == Leg(ApexWallet, 10, BTC_DASH_USDT, "BUY", RatInt(1), RatInt(50000), RatInt(5), None, Some(FALSE))

OpenShort == Leg(ApexWallet, 12, BTC_DASH_USDT, "SELL", RatInt(1), RatInt(50000), None, None, Some(FALSE))

CloseLong == Leg(ApexWallet, 20, BTC_DASH_USDT, "SELL", RatInt(1), RatInt(51000), None, RatInt(5), Some(TRUE))

CloseNear == Leg(ApexWallet, 20, BTC_DASH_USDT, "SELL", Frac(10009, 10000), RatInt(51000), None, None, Some(TRUE))

CloseFar == Leg(ApexWallet, 25, BTC_DASH_USDT, "SELL", Frac(10011, 10000), RatInt(51000), None, None, None)

CloseLate == Leg(ApexWallet, 30, BTC_DASH_USDT, "BUY", RatInt(1), RatInt(49000), None, RatInt(3), None)

CloseEarly == Leg(ApexWallet, 5, BTC_DASH_USDT, "SELL", RatInt(1), RatInt(51000), None, None, Some(TRUE))

CloseOther == Leg(ApexWallet, 20, ETH_USDT, "SELL", RatInt(1), RatInt(51000), None, None, Some(TRUE))

LegPool == <<OpenLong, OpenShort, CloseLong, CloseNear, CloseFar, CloseLate, CloseEarly, CloseOther>>

\* the tables of at most MaxLegs legs of the pool, each leg once
LegTables ==
    {[k \in 1..Len(ids) |-> LegPool[ids[k]]] :
        ids \in {IdList(chosen) : chosen \in {c \in SUBSET (1..Len(LegPool)) :
                                                 Cardinality(c) \in 1..MaxLegs}}}

InitAggregation ==
    /\ position_snapshots = <<>>
    /\ equity_snapshots = <<>>
    /\ exchange_log = <<>>
    /\ est_calls = <<>>
    /\ passes = NoPasses
    /\ now = 0
    /\ ncycles = 0
    /\ closed_trades \in LegTables
    /\ aggregated_trades = <<>>
    /\ positions_tbl = <<>>
    /\ strategy_assignments = <<>>
    /\ last_call = NoCall

\* a session that upserts a batch of legs and commits
upsert_session(wallet_id, batch) ==
    /\ closed_trades' = upsert_closed_trades(closed_trades, closed_trades, batch, wallet_id)
    /\ ncycles' = ncycles + 1
    /\ UNCHANGED passes
    /\ last_call' = Returned(PendingCall("upsert_closed_trade", <<wallet_id, batch>>),
                             Len(batch))
    /\ UNCHANGED <<snapshotVars, now, aggregated_trades, positions_tbl, strategy_assignments>>

ApexFill(createdAt, symbol, side, size, price, fee, reduceOnly) ==
    [createdAt |-> createdAt, symbol |-> symbol, side |-> side, size |-> size,
     price |-> price, fee |-> fee, reduceOnly |-> reduceOnly]

FillBatches ==
    {<<>>, <<ApexFill(40, BTCUSDT, "SELL", RatInt(1), RatInt(52000), RatInt(5), Some(TRUE))>>}

\* re-upserted legs: the opening leg reported as a closing one, the closing
\* leg with another price, and one new fill reported twice
LegBatches ==
    {<<[LegData(OpenLong) EXCEPT !.reduce_only = Some(TRUE)]>>,
     <<[LegData(CloseLong) EXCEPT !.exit_price = RatInt(52000)]>>,
     <<LegData(Leg(ApexWallet, 40, BTCUSDT, "SELL", RatInt(1), RatInt(52000), None, None, Some(TRUE))),
       LegData(Leg(ApexWallet, 40, BTC_USDT, "SELL", RatInt(1), RatInt(53000), None, None, Some(TRUE)))>>}

RefreshAggregation ==
    /\ ncycles < MaxTradeCycles
    /\ \E fills \in FillBatches :
           refresh_wallet_data(ApexWallet, Minutes(30), 100, <<>>, fills)

UpsertLegs ==
    /\ ncycles < MaxTradeCycles
    /\ \E batch \in LegBatches : upsert_session(ApexWallet, batch)

NextAggregation == RefreshAggregation \/ UpsertLegs

SpecAggregation == InitAggregation /\ [][NextAggregation]_vars

-----------------------------------------------------------------------------
(* Properties of the aggregation *)

\* the matches of the aggregation run that has just returned
Pairs ==
    IF last_call.fn = "sync_aggregated_trades" /\ last_call.returned
    THEN {last_call.result.pairs[k] : k \in 1..Len(last_call.result.pairs)}
    ELSE {}

OpenerOf(p) == closed_trades[p.opening]

CloserOf(p) == closed_trades[p.closing]

\* |opener.size - closer.size| / opener.size <= 0.001, for a positive opener size
WithinTolerance(opener, closer) ==
    LET o == opener.size
        c == closer.size
        diff == Abs(o[1] * c[2] - c[1] * o[2])
    IN  /\ o[1] > 0
        /\ diff * 1000 * o[2] <= o[1] * o[2] * c[2]

\* C11: every aggregated trade written by a run comes from one opening leg
\* (reduce_only false) and one closing leg (reduce_only true or unknown) of
\* the same wallet and normalized symbol, the opener strictly earlier than
\* the closer and the two sizes within 0.1% of the opener's size.
C11_MatchedPair ==
    \A p \in Pairs :
        /\ OpenerOf(p).reduce_only = Some(FALSE)
        /\ CloserOf(p).reduce_only \in {Some(TRUE), None}
        /\ OpenerOf(p).wallet_id = CloserOf(p).wallet_id
        /\ normalize_symbol(OpenerOf(p).symbol) = normalize_symbol(CloserOf(p).symbol)
        /\ OpenerOf(p).timestamp < CloserOf(p).timestamp
        /\ WithinTolerance(OpenerOf(p), CloserOf(p))
        /\ p.row \in 1..Len(aggregated_trades)
        /\ aggregated_trades[p.row].wallet_id = CloserOf(p).wallet_id
        /\ aggregated_trades[p.row].timestamp = CloserOf(p).timestamp
        /\ aggregated_trades[p.row].symbol = normalize_symbol(CloserOf(p).symbol)

\* an opener of size 1.0000 merged with a closer of size 1.0009, in a run
\* that had a closer of size 1.0011 to match and left it alone
C11_Witness ==
    /\ \E p \in Pairs : /\ OpenerOf(p).size = RatInt(1)
                        /\ CloserOf(p).size = Frac(10009, 10000)
    /\ \E c \in 1..Len(closed_trades) :
           /\ closed_trades[c].size = Frac(10011, 10000)
           /\ closed_trades[c].reduce_only = None
           /\ \A p \in Pairs : p.closing # c

\* C12: within one run no opening leg is matched to more than one closing
\* leg.
C12_OpenerConsumed ==
    \A p, q \in Pairs : p.opening = q.opening => p.closing = q.closing

Fee(x) == IF x = None THEN RatInt(0) ELSE x

\* C13: the side of a matched pair is LONG for a BUY opener and SHORT for a
\* SELL opener; total_pnl is (exit - entry) * size - fees for LONG and
\* (entry - exit) * size - fees for SHORT, with the opener's entry price,
\* the closer's exit price and fees = open_fee + close_fee + liquidate_fee,
\* a missing fee counting 0.
C13_SideAndPnl ==
    \A p \in Pairs :
        LET entry == OpenerOf(p).entry_price
            exit == CloserOf(p).exit_price
            size == p.trade.size
            fees == RatAdd(Fee(OpenerOf(p).open_fee),
                           RatAdd(Fee(CloserOf(p).close_fee), Fee(CloserOf(p).liquidate_fee)))
        IN  /\ OpenerOf(p).side = "BUY" => p.trade.side = "LONG"
            /\ OpenerOf(p).side = "SELL" => p.trade.side = "SHORT"
            /\ p.trade.side = "LONG" =>
                   p.trade.total_pnl = RatSub(RatMul(RatSub(exit, entry), size), fees)
            /\ p.trade.side = "SHORT" =>
                   p.trade.total_pnl = RatSub(RatMul(RatSub(entry, exit), size), fees)
            /\ (OpenerOf(p) = OpenLong /\ CloserOf(p) = CloseLong) =>
                   p.trade.side = "LONG" /\ p.trade.total_pnl = RatInt(990)

\* open BUY 1.0 @ 50000 with open_fee 5, close SELL 1.0 @ 51000 with
\* close_fee 5: LONG, 990
C13_Witness ==
    \E p \in Pairs : /\ OpenerOf(p) = OpenLong /\ CloserOf(p) = CloseLong
                     /\ p.trade.side = "LONG"
                     /\ p.trade.total_pnl = RatInt(990)
                     /\ aggregated_trades[p.row] = p.trade


\* the step is an aggregation run that follows another one with no change
\* of the legs in between
RunRepeated ==
    /\ last_call.fn = "sync_aggregated_trades"
    /\ last_call'.fn = "sync_aggregated_trades"
    /\ ncycles' = ncycles + 1
    /\ closed_trades' = closed_trades

\* C14: aggregation is idempotent: a second run over an unchanged leg set
\* leaves the aggregated trades as the first run left them, one row per
\* matched closing leg with the fields the match gives it.
C14_Idempotent ==
    [][RunRepeated =>
          /\ aggregated_trades' = aggregated_trades
          /\ \A k \in 1..Len(last_call'.result.pairs) :
                 LET p == last_call'.result.pairs[k]
                 IN  Cardinality({r \in 1..Len(aggregated_trades') :
                                     aggregated_trades'[r] = p.trade}) = 1]_vars

AggregatedKey(row) == <<row.wallet_id, row.timestamp, normalize_symbol(row.symbol)>>

LegKey(leg) == <<leg.wallet_id, normalize_symbol(leg.symbol), leg.timestamp, leg.size>>

\* C15: upserts converge: aggregated_trades holds at most one row per
\* (wallet_id, timestamp, normalized symbol) and closed_trades at most one
\* row per (wallet_id, normalized symbol, timestamp, size).
C15_UpsertsConverge ==
    /\ \A i, j \in 1..Len(aggregated_trades) :
           AggregatedKey(aggregated_trades[i]) = AggregatedKey(aggregated_trades[j]) => i = j
    /\ \A i, j \in 1..Len(closed_trades) :
           LegKey(closed_trades[i]) = LegKey(closed_trades[j]) => i = j

\* C16: after an aggregation run the aggregated trades of the wallet are
\* exactly those computed from the current legs: each matched closing leg
\* has its row, holding the trade of the match, and there is no other row.
C16_FullyDerived ==
    (last_call.fn = "sync_aggregated_trades" /\ last_call.returned) =>
        /\ \A p \in Pairs : /\ p.row \in 1..Len(aggregated_trades)
                            /\ aggregated_trades[p.row] = p.trade
        /\ \A p, q \in Pairs : p.row = q.row => p = q
        /\ \A r \in 1..Len(aggregated_trades) :
               aggregated_trades[r].wallet_id = last_call.args[1] =>
                   \E p \in Pairs : p.row = r

-----------------------------------------------------------------------------
(* The Apex wallet with a closed trade in the database: refreshes that     *)
(* store snapshots and sync fills, and page loads that show the closed     *)
(* trades                                                                  *)

MaxBorrowCycles == 3

CloseTimes == {Minutes(28), Minutes(32), Minutes(60)}

BorrowTables ==
    {<<Leg(ApexWallet, Minutes(1), BTC_DASH_USDT, "BUY", RatInt(1), RatInt(3000), None, None, Some(FALSE)),
       Leg(ApexWallet, closed, BTC_DASH_USDT, "SELL", size, RatInt(3100), None, None, Some(TRUE))>> :
         closed \in CloseTimes, size \in {RatInt(1), Frac(10009, 10000)}}

BorrowGaps == {Minutes(2), Minutes(30)}

BorrowPayloads == Payloads(<< {ApexPosition(BTCUSDT, 1, 3000, 0, Frac(1, 20))} >>)

BorrowFills ==
    {<<>>, <<ApexFill(Minutes(32), BTCUSDT, "SELL", RatInt(1), RatInt(3100), RatInt(0), Some(TRUE))>>}

InitBorrow ==
    /\ position_snapshots = <<>>
    /\ equity_snapshots = <<>>
    /\ exchange_log = <<>>
    /\ est_calls = <<>>
    /\ passes = NoPasses
    /\ now = 0
    /\ ncycles = 0
    /\ closed_trades \in BorrowTables
    /\ aggregated_trades = <<>>
    /\ positions_tbl = <<>>
    /\ strategy_assignments = <<>>
    /\ last_call = NoCall

RefreshBorrow ==
    /\ ncycles < MaxBorrowCycles
    /\ \E gap \in BorrowGaps, positions \in BorrowPayloads, fills \in BorrowFills :
           refresh_wallet_data(ApexWallet, gap, 100, positions, fills)

DashboardBorrow ==
    /\ ncycles < MaxBorrowCycles
    /\ \E gap \in BorrowGaps, positions \in BorrowPayloads :
           wallet_dashboard(ApexWallet, gap, 100, 0, positions, <<>>)

NextBorrow == RefreshBorrow \/ DashboardBorrow

SpecBorrow == InitBorrow /\ [][NextBorrow]_vars

\* the snapshot is one a trade closed at the given time may borrow from:
\* same wallet and normalized symbol, recorded within 5 minutes after the
\* close
AfterClose(snapshot, wallet_id, symbol, closed) ==
    /\ snapshot.wallet_id = wallet_id
    /\ normalize_symbol(snapshot.symbol) = normalize_symbol(symbol)
    /\ snapshot.timestamp >= closed
    /\ snapshot.timestamp <= closed + 5 * TicksPerMinute

\* |snapshot size - trade size| within 10% of the trade size
SizeWithinTenth(snapshot_size, trade_size) ==
    Abs(snapshot_size * trade_size[2] - trade_size[1]) * 10 <= trade_size[1]

\* the closed trades a page has just shown
ShownTrades ==
    IF last_call.fn = "get_aggregated_closed_trades" /\ last_call.returned
    THEN {last_call.result[k] : k \in 1..Len(last_call.result)}
    ELSE {}

\* the leverage lookups of the fill sync that has just run
FillLookups ==
    IF last_call.fn = "sync_aggregated_trades" /\ last_call.returned
    THEN {last_call.result.lookups[k] : k \in 1..Len(last_call.result.lookups)}
    ELSE {}

-----------------------------------------------------------------------------
(* app.py: the admin routes of the strategy assignments.  A row of         *)
(* strategy_assignments has id, wallet_id, symbol, strategy_id, start_at,  *)
(* end_at (None or Some(t)) and active.  The routes run in a session with  *)
(* autoflush off: the query for the active assignments reads the rows of   *)
(* the database.                                                           *)

\* the id the database gives the next row
NextId(assignments) ==
    LET ids == {assignments[i].id : i \in 1..Len(assignments)}
    IN  IF ids = {} THEN 1 ELSE (CHOOSE m \in ids : \A o \in ids : o <= m) + 1

\* db/queries_strategies.py: create_assignment
create_assignment(assignments, wallet_id, symbol, strategy_id, start_at) ==
    Append(assignments,
           [id |-> NextId(assignments), wallet_id |-> wallet_id,
            symbol |-> normalize_symbol(symbol), strategy_id |-> strategy_id,
            start_at |-> start_at, end_at |-> None, active |-> TRUE])

\* one pair of the submission.  run.assignments: the rows as the session
\* holds them; run.clock: the time of the next utcnow()
assign_pair(db_assignments, run, wallet_id, pair) ==
    LET symbol == pair.symbol
        strategy_id == pair.strategy_id
        normalized_symbol == validate_symbol(symbol)
        existing == {i \in 1..Len(db_assignments) :
                        /\ db_assignments[i].wallet_id = wallet_id
                        /\ db_assignments[i].symbol = normalized_symbol
                        /\ db_assignments[i].active}
        deactivated == [i \in 1..Len(run.assignments) |->
                           IF i \in existing
                           THEN [run.assignments[i] EXCEPT !.active = FALSE,
                                                           !.end_at = Some(run.clock)]
                           ELSE run.assignments[i]]
    IN  IF symbol = <<>> \/ strategy_id = 0 THEN run
        ELSE IF normalized_symbol = None THEN run
        ELSE [assignments |-> create_assignment(deactivated, wallet_id, normalized_symbol,
                                                strategy_id, run.clock + 1),
              clock |-> run.clock + 2,
              assignment_count |-> run.assignment_count + 1]

RECURSIVE assign_pairs(_, _, _, _)
assign_pairs(db_assignments, run, wallet_id, pairs) ==
    IF pairs = <<>> THEN run
    ELSE assign_pairs(db_assignments,
                      assign_pair(db_assignments, run, wallet_id, Head(pairs)),
                      wallet_id, Tail(pairs))

\* admin_assign_strategy: the multi-pair form
admin_assign_strategy(wallet_id, gap, pairs) ==
    LET run == assign_pairs(strategy_assignments,
                            [assignments |-> strategy_assignments, clock |-> now + gap,
                             assignment_count |-> 0],
                            wallet_id, pairs)
    IN  /\ wallet_id # 0
        /\ strategy_assignments' = run.assignments
        /\ now' = run.clock
        /\ ncycles' = ncycles + 1
        /\ UNCHANGED passes
        /\ last_call' = Returned(PendingCall("admin_assign_strategy", <<wallet_id, pairs>>),
                                 run.assignment_count)
        /\ UNCHANGED <<snapshotVars, tradeVars>>

\* db/queries_strategies.py: end_assignment
end_assignment(assignments, assignment_id, end_time) ==
    [i \in 1..Len(assignments) |->
        IF assignments[i].id = assignment_id
        THEN [assignments[i] EXCEPT !.end_at = Some(end_time), !.active = FALSE]
        ELSE assignments[i]]

admin_end_assignment(assignment_id, gap) ==
    /\ assignment_id >= 1
    /\ strategy_assignments' = end_assignment(strategy_assignments, assignment_id, now + gap)
    /\ now' = now + gap
    /\ ncycles' = ncycles + 1
    /\ UNCHANGED passes
    /\ last_call' = Returned(PendingCall("admin_end_assignment", <<assignment_id>>),
                             \E i \in 1..Len(strategy_assignments) :
                                 strategy_assignments[i].id = assignment_id)
    /\ UNCHANGED <<snapshotVars, tradeVars>>

\* db/queries_strategies.py: delete_assignment
delete_assignment(assignments, assignment_id) ==
    LET Kept(a) == a.id # assignment_id
    IN  SelectSeq(assignments, Kept)

admin_delete_assignment(assignment_id, gap) ==
    /\ assignment_id >= 1
    /\ strategy_assignments' = delete_assignment(strategy_assignments, assignment_id)
    /\ now' = now + gap
    /\ ncycles' = ncycles + 1
    /\ UNCHANGED passes
    /\ last_call' = Returned(PendingCall("admin_delete_assignment", <<assignment_id>>),
                             \E i \in 1..Len(strategy_assignments) :
                                 strategy_assignments[i].id = assignment_id)
    /\ UNCHANGED <<snapshotVars, tradeVars>>

\* a call of resolve_strategy_id, as the trade syncs make it
resolve_strategy(wallet_id, symbol, ts) ==
    /\ last_call' = Returned(PendingCall("resolve_strategy_id", <<wallet_id, symbol, ts>>),
                             resolve_strategy_id(strategy_assignments, wallet_id, symbol, ts))
    /\ UNCHANGED <<snapshotVars, tradeVars, strategy_assignments, now, ncycles, passes>>

-----------------------------------------------------------------------------
(* The strategy assignments of one wallet *)

MaxStrategyCycles == 3

StrategyGap == Minutes(1)

Pair(symbol, strategy_id) == [symbol |-> symbol, strategy_id |-> strategy_id]

\* the submissions: one pair, the same instrument spelled without the
\* dash, and one instrument named twice in a submission
PairLists ==
    {<<Pair(BTC_DASH_USDT, 1)>>,
     <<Pair(BTCUSDT, 2)>>,
     <<Pair(BTC_DASH_USDT, 1), Pair(BTC_DASH_USDT, 2)>>,
     <<Pair(BTC_USDT, 1)>>}

AssignmentIds == 1..2

ResolveSymbols == {BTCUSDT, ETH_USDT}

\* trade timestamps between and at the times of the submissions
ResolveTimes == {5 * k : k \in 1..7}

AssignStrategy ==
    /\ ncycles < MaxStrategyCycles
    /\ \E pairs \in PairLists : admin_assign_strategy(ApexWallet, StrategyGap, pairs)

EndAssignment ==
    /\ ncycles < MaxStrategyCycles
    /\ \E assignment_id \in AssignmentIds : admin_end_assignment(assignment_id, StrategyGap)

DeleteAssignment ==
    /\ ncycles < MaxStrategyCycles
    /\ \E assignment_id \in AssignmentIds : admin_delete_assignment(assignment_id, StrategyGap)

ResolveStrategy ==
    \E symbol \in ResolveSymbols, ts \in ResolveTimes :
        resolve_strategy(ApexWallet, symbol, ts)

NextStrategies == AssignStrategy \/ EndAssignment \/ DeleteAssignment \/ ResolveStrategy

SpecStrategies == Init /\ [][NextStrategies]_vars

\* the call of resolve_strategy_id that has just returned
Resolved == last_call.fn = "resolve_strategy_id" /\ last_call.returned

\* the assignments of the wallet and normalized symbol that cover ts
Covering(wallet_id, symbol, ts) ==
    {i \in 1..Len(strategy_assignments) :
        /\ strategy_assignments[i].wallet_id = wallet_id
        /\ strategy_assignments[i].symbol = normalize_symbol(symbol)
        /\ strategy_assignments[i].start_at <= ts
        /\ \/ strategy_assignments[i].end_at = None
           \/ strategy_assignments[i].end_at[1] >= ts}

\* C18: resolve_strategy_id returns the strategy of the covering assignment
\* (start_at <= ts, end_at null or >= ts) with the latest start_at, and
\* None when no assignment covers ts.
C18_LatestStart ==
    Resolved =>
        LET covering == Covering(last_call.args[1], last_call.args[2], last_call.args[3])
        IN  IF covering = {} THEN last_call.result = None
            ELSE \E i \in covering :
                    /\ \A j \in covering :
                           strategy_assignments[j].start_at <= strategy_assignments[i].start_at
                    /\ last_call.result = Some(strategy_assignments[i].strategy_id)

\* A (start t0, end t2) and B (start t1, no end) with t0 < t1 < ts < t2:
\* the call resolves to B
C18_Witness ==
    /\ Resolved
    /\ \E a, b \in Covering(last_call.args[1], last_call.args[2], last_call.args[3]) :
           /\ strategy_assignments[a].end_at # None
           /\ strategy_assignments[b].end_at = None
           /\ strategy_assignments[a].start_at < strategy_assignments[b].start_at
           /\ strategy_assignments[b].start_at < last_call.args[3]
           /\ last_call.args[3] < strategy_assignments[a].end_at[1]
           /\ strategy_assignments[a].strategy_id # strategy_assignments[b].strategy_id
           /\ last_call.result = Some(strategy_assignments[b].strategy_id)

\* C19: at most one assignment with active = true per (wallet, normalized
\* symbol), after any sequence of assign, end and delete operations.
C19_OneActive ==
    \A i, j \in 1..Len(strategy_assignments) :
        (/\ strategy_assignments[i].active
         /\ strategy_assignments[j].active
         /\ strategy_assignments[i].wallet_id = strategy_assignments[j].wallet_id
         /\ normalize_symbol(strategy_assignments[i].symbol)
                = normalize_symbol(strategy_assignments[j].symbol)) => i = j

-----------------------------------------------------------------------------
(* app.py: merge_symbols, the symbols of one wallet's row of the strategy  *)
(* matrix.  traded_set is a set of strings; the loop visits it in the      *)
(* order the set iterates, which the language leaves open.                 *)

StartsWith(s, prefix) ==
    /\ Len(s) >= Len(prefix)
    /\ SubSeq(s, 1, Len(prefix)) = prefix

\* the orders in which a set can iterate
IterationOrders(set) ==
    {order \in [1..Cardinality(set) -> set] :
        \A i, j \in 1..Cardinality(set) : order[i] = order[j] => i = j}

\* the traded symbol that already stands for the assignment symbol
assignment_is_base(traded, norm_assign) ==
    \/ traded = norm_assign
    \/ StartsWith(traded, norm_assign \o <<"-">>)
    \/ StartsWith(traded, norm_assign \o <<"_">>)

traded_is_base(traded, norm_assign) ==
    \/ StartsWith(norm_assign, traded \o <<"-">>)
    \/ StartsWith(norm_assign, traded \o <<"_">>)

merge_symbols(traded_set, assignment_symbol, order) ==
    LET norm_assign == normalize_symbol(assignment_symbol)
        hits == {i \in 1..Len(order) :
                    \/ assignment_is_base(order[i], norm_assign)
                    \/ traded_is_base(order[i], norm_assign)}
    IN  IF hits = {} THEN traded_set \cup {norm_assign}
        ELSE LET traded == order[CHOOSE i \in hits : \A o \in hits : i <= o]
             IN  IF assignment_is_base(traded, norm_assign) THEN traded_set
                 ELSE (traded_set \ {traded}) \cup {norm_assign}

-----------------------------------------------------------------------------
(* The strategy matrix: the traded symbols of a wallet merged with the     *)
(* symbols of its active assignments, one assignment at a time             *)

BTC_DASH_USD == <<"B","T","C","-","U","S","D">>

\* the symbols of the latest position snapshots of a wallet
TradedSymbols == {BTC, BTC_DASH_USDT, BTC_DASH_USD, ETH_USDT}

\* the symbols of active assignments, as create_assignment stores them
AssignmentSymbols == {BTC, BTC_DASH_USDT, BTC_DASH_USD, ETH}

\* the active assignments of a wallet, in the order the map iterates
AssignmentLists ==
    {<<a>> : a \in AssignmentSymbols}
        \cup {pair \in AssignmentSymbols \X AssignmentSymbols : pair[1] # pair[2]}

InitMerge ==
    /\ position_snapshots = <<>>
    /\ equity_snapshots = <<>>
    /\ exchange_log = <<>>
    /\ est_calls = <<>>
    /\ passes = NoPasses
    /\ now = 0
    /\ ncycles = 0
    /\ closed_trades = <<>>
    /\ aggregated_trades = <<>>
    /\ positions_tbl = <<>>
    /\ strategy_assignments = <<>>
    /\ \E traded_set \in SUBSET TradedSymbols, assignments \in AssignmentLists :
           last_call = [fn |-> "merge_symbols", args |-> <<traded_set, assignments>>,
                        returned |-> FALSE, result |-> traded_set]

\* one pass of the loop over the active assignments
MergeSymbol ==
    /\ last_call.fn = "merge_symbols"
    /\ ncycles < Len(last_call.args[2])
    /\ \E order \in IterationOrders(last_call.result) :
           last_call' = [last_call EXCEPT
               !.result = merge_symbols(last_call.result, last_call.args[2][ncycles + 1], order),
               !.returned = (ncycles + 1 = Len(last_call.args[2]))]
    /\ ncycles' = ncycles + 1
    /\ UNCHANGED passes
    /\ UNCHANGED <<snapshotVars, now, tradeVars, strategy_assignments>>

NextMerge == MergeSymbol

SpecMerge == InitMerge /\ [][NextMerge]_vars

\* a symbol without its - and _ separators
StripSeparators(s) ==
    LET Letter(c) == c # "-" /\ c # "_"
    IN  SelectSeq(s, Letter)

\* the same instrument: one is a prefix of the other once the separators
\* are removed
SameInstrument(a, b) ==
    \/ StartsWith(StripSeparators(a), StripSeparators(b))
    \/ StartsWith(StripSeparators(b), StripSeparators(a))

BaseQuoteForm(s) == \E i \in 1..Len(s) : s[i] = "-"

Merged == last_call.fn = "merge_symbols" /\ last_call.returned

\* C21: an assignment symbol and a traded symbol of one wallet that are the
\* same instrument yield a single row, carrying the BASE-QUOTE form, in
\* any order of merging; assignment BTC with traded BTC-USDT gives the one
\* row BTC-USDT, and assignment BTC-USDT with traded BTC gives BTC-USDT.
C21_SingleRow ==
    Merged =>
        /\ \A t \in last_call.args[1] : \A k \in 1..Len(last_call.args[2]) :
               SameInstrument(last_call.args[2][k], t) =>
                   LET rows == {r \in last_call.result : SameInstrument(r, t)}
                   IN  /\ Cardinality(rows) = 1
                       /\ (BaseQuoteForm(last_call.args[2][k]) \/ BaseQuoteForm(t))
                              => \A r \in rows : BaseQuoteForm(r)
        /\ (last_call.args = <<{BTC_DASH_USDT}, <<BTC>> >>) => last_call.result = {BTC_DASH_USDT}
        /\ (last_call.args = <<{BTC}, <<BTC_DASH_USDT>> >>) => last_call.result = {BTC_DASH_USDT}

-----------------------------------------------------------------------------
(* logger.py: refresh_all_wallets, a batch over the connected wallets (the *)
(* Apex wallet, then the Hyperliquid wallet), with failures.  A step is    *)
(* the refresh of the next wallet of the batch.                            *)

MaxBatchCycles == 2

BatchWallets == <<ApexWallet, HyperliquidWallet>>

HlTrade(timestamp, asset, side, quantity, price, fee) ==
    [timestamp |-> timestamp, asset |-> asset, side |-> side, quantity |-> quantity,
     price |-> price, fee |-> fee]

HlTradeBatches ==
    {<<>>,
     <<HlTrade(10, BTC, "buy", RatInt(1), RatInt(3000), RatInt(1)),
       HlTrade(20, ETH, "sell", RatInt(2), RatInt(40), RatInt(1))>>}

\* no failure, a client that cannot be created, a calculator call that
\* raises for ETH, an upsert that raises for the first trade
BatchFailures ==
    {NoFailure,
     [NoFailure EXCEPT !.client = TRUE],
     [NoFailure EXCEPT !.symbols = {ETH, ETH_USDT}],
     [NoFailure EXCEPT !.trades = {1}]}

RefreshNextWallet ==
    /\ ncycles < MaxBatchCycles
    /\ LET wallet_id == BatchWallets[(ncycles % Len(BatchWallets)) + 1]
       IN  \E margin \in Margins, failure \in BatchFailures :
               IF Provider(wallet_id) = "hyperliquid"
               THEN \E positions \in HyperliquidPayloads, trades \in HlTradeBatches :
                        refresh_wallet_data_with(wallet_id, 1, margin, positions, trades, failure)
               ELSE \E positions \in ApexPayloads :
                        refresh_wallet_data_with(wallet_id, Minutes(30), margin, positions,
                                                 <<>>, failure)

NextBatch == RefreshNextWallet

SpecBatch == Init /\ [][NextBatch]_vars

\* the symbols whose calculator call raised in the run of a log entry
RaisedIn(e) ==
    UNION {exchange_log[k].held :
              k \in {j \in 1..Len(exchange_log) :
                        /\ exchange_log[j].handler = "raised"
                        /\ exchange_log[j].wallet_id = e.wallet_id
                        /\ exchange_log[j].timestamp = e.timestamp}}

\* every symbol the exchange reported in a refresh, other than those whose
\* leverage estimation failed, has its snapshot of that refresh
SymbolsStored ==
    \A k \in 1..Len(exchange_log) :
        exchange_log[k].handler = "refresh" =>
            \A s \in exchange_log[k].held \ RaisedIn(exchange_log[k]) :
                \E i \in 1..Len(position_snapshots) :
                    /\ position_snapshots[i].wallet_id = exchange_log[k].wallet_id
                    /\ position_snapshots[i].symbol = s
                    /\ position_snapshots[i].timestamp = exchange_log[k].timestamp

\* every trade of the last trade sync, other than those whose upsert
\* failed, has its leg
TradesStored ==
    (last_call.fn = "upsert_closed_trade" /\ Len(last_call.args) = 3) =>
        \A i \in (1..Len(last_call.args[2])) \ last_call.args[3] :
            \E r \in 1..Len(closed_trades) :
                /\ closed_trades[r].wallet_id = last_call.args[1]
                /\ closed_trades[r].symbol = normalize_symbol(last_call.args[2][i].asset)
                /\ closed_trades[r].timestamp = last_call.args[2][i].timestamp
                /\ closed_trades[r].size = last_call.args[2][i].quantity

\* C22: in a refresh batch, a failure while refreshing one wallet, or while
\* estimating leverage for one symbol or syncing one fill inside a wallet,
\* does not prevent the remaining wallets, symbols and fills of the batch
\* from being processed and stored.
C22_FailureIsolation == SymbolsStored /\ TradesStored

-----------------------------------------------------------------------------
(* The scheduler's thread (app.py: start_background_logger, logger.py:      *)
(* run_scheduler) and a request thread (app.py: wallet_dashboard) both      *)
(* write snapshots of the Hyperliquid wallet.  Each works in a session of   *)
(* its own: a pass first reads the committed rows (new-position test,       *)
(* previous-margin lookup, the opened_at lookup of the insert) and adds its *)
(* rows to the session, then commits.  No lock is taken in either thread.   *)
(* The reads of a pass are taken at one instant.                            *)

MaxPassCycles == 2

Pass(wallet_id, timestamp, handler, equity_row, rows, calls, held) ==
    [wallet_id |-> wallet_id, timestamp |-> timestamp, handler |-> handler,
     equity_row |-> equity_row, rows |-> rows, calls |-> calls, held |-> held]

InProgress == {t \in Threads : passes[t] # <<>>}

\* _refresh_hyperliquid_wallet up to the end of the position loop
begin_refresh_hyperliquid_wallet(thread, wallet_id, gap, current_margin_used, positions_raw) ==
    LET refresh_time == now + gap
        equity_data == [wallet_id |-> wallet_id, timestamp |-> refresh_time,
                        initial_margin |-> Some(current_margin_used)]
        Process(p) == hl_refresh_position(position_snapshots, equity_snapshots,
                                          wallet_id, refresh_time, current_margin_used, p)
        Row(p) == p.row
        Call(p) == p.call
        Estimated(p) == p.estimated
    IN  \E processed \in {[i \in 1..Len(positions_raw) |-> Process(positions_raw[i])]} :
        LET estimated == SelectSeq(processed, Estimated)
            marker == IF Len(processed) = 0
                      THEN <<insert_position_snapshot(position_snapshots,
                                                      NoPositionsData(wallet_id, refresh_time))>>
                      ELSE <<>>
        IN
        /\ passes[thread] = <<>>
        /\ now' = refresh_time
        /\ passes' = [passes EXCEPT ![thread] =
               <<Pass(wallet_id, refresh_time, "refresh",
                      insert_equity_snapshot(equity_data),
                      [i \in 1..Len(processed) |-> Row(processed[i])] \o marker,
                      [i \in 1..Len(estimated) |-> Call(estimated[i])],
                      {positions_raw[i].asset : i \in 1..Len(positions_raw)})>>]
        /\ UNCHANGED <<snapshotVars, ncycles, tradeVars, strategy_assignments, last_call>>

\* wallet_dashboard (Hyperliquid) up to the end of the position loop
begin_wallet_dashboard(thread, wallet_id, gap, margin_used, account_equity, positions) ==
    LET equity_time == now + gap
        timestamp == equity_time + 1
        snapshot_data == [wallet_id |-> wallet_id, timestamp |-> equity_time,
                          initial_margin |-> Some(margin_used)]
        NonZero(pos) == Abs(pos.quantity) # 0
        Process(pos) == dashboard_hyperliquid_position(position_snapshots, equity_snapshots,
                            wallet_id, timestamp, margin_used, account_equity, pos)
        nonzero == SelectSeq(positions, NonZero)
        Row(p) == p.row
        Call(p) == p.call
    IN  \E processed \in {[i \in 1..Len(nonzero) |-> Process(nonzero[i])]} :
        /\ passes[thread] = <<>>
        /\ now' = timestamp
        /\ passes' = [passes EXCEPT ![thread] =
               <<Pass(wallet_id, timestamp, "dashboard",
                      insert_equity_snapshot(snapshot_data),
                      [i \in 1..Len(processed) |-> Row(processed[i])],
                      [i \in 1..Len(processed) |-> Call(processed[i])],
                      {normalize_symbol(nonzero[i].asset) : i \in 1..Len(nonzero)})>>]
        /\ UNCHANGED <<snapshotVars, ncycles, tradeVars, strategy_assignments, last_call>>

\* the commit that ends the pass of a thread
commit_pass(thread) ==
    /\ passes[thread] # <<>>
    /\ \E p \in {passes[thread][1]} :
        /\ equity_snapshots' = Append(equity_snapshots, p.equity_row)
        /\ position_snapshots' = position_snapshots \o p.rows
        /\ est_calls' = p.calls
        /\ exchange_log' = Append(exchange_log,
                                  Held(p.wallet_id, p.timestamp, p.handler, p.held))
        /\ ncycles' = ncycles + 1
        /\ passes' = [passes EXCEPT ![thread] = <<>>]
        /\ UNCHANGED <<now, tradeVars, strategy_assignments, last_call>>

PassGaps == {1, Minutes(30)}

SchedulerBegins ==
    /\ ncycles + Cardinality(InProgress) < MaxPassCycles
    /\ \E gap \in PassGaps, margin \in Margins, positions \in HyperliquidPayloads :
           begin_refresh_hyperliquid_wallet("EquityLogger", HyperliquidWallet, gap, margin,
                                            positions)

PageLoadBegins ==
    /\ ncycles + Cardinality(InProgress) < MaxPassCycles
    /\ \E gap \in PassGaps, margin \in Margins, positions \in HyperliquidPayloads :
           begin_wallet_dashboard("request", HyperliquidWallet, gap, margin, AccountEquity,
                                  positions)

SchedulerCommits == commit_pass("EquityLogger")

PageLoadCommits == commit_pass("request")

NextThreads == SchedulerBegins \/ PageLoadBegins \/ SchedulerCommits \/ PageLoadCommits

SpecThreads == Init /\ [][NextThreads]_vars

\* C23: at no time are two snapshot-writing passes for the same wallet in
\* progress at once: the scheduler's thread and a page load never have
\* their reads (new-position test, previous-margin lookup) and their
\* snapshot inserts for one wallet interleaved.
C23_SingleWriter ==
    \A t, u \in InProgress :
        t # u => passes[t][1].wallet_id # passes[u][1].wallet_id

-----------------------------------------------------------------------------
(* The positions table (scripts/migrate_add_positions.py), filled by        *)
(* scripts/backfill_position_ids.py from the sessions of the snapshots: one *)
(* row per session, in the order of opened_at, still open (closed_at NULL)  *)
(* or closed at the first zero snapshot after the session.                  *)

PositionRow(wallet_id, symbol, side, opened_at, closed_at, entry_price, exit_price, realized_pnl) ==
    [wallet_id |-> wallet_id, symbol |-> symbol, side |-> side, opened_at |-> opened_at,
     closed_at |-> closed_at, entry_price |-> entry_price, exit_price |-> exit_price,
     realized_pnl |-> realized_pnl]

LongClosedEarly == PositionRow(ApexWallet, BTC_DASH_USDT, "LONG", 2, Some(4), RatInt(48000), None, None)

LongOpen == PositionRow(ApexWallet, BTC_DASH_USDT, "LONG", 8, None, RatInt(50000), None, None)

LongClosed == PositionRow(ApexWallet, BTC_DASH_USDT, "LONG", 8, Some(21), RatInt(50000), None, None)

ShortOpen == PositionRow(ApexWallet, BTC_DASH_USDT, "SHORT", 11, None, RatInt(50000), None, None)

LongReopened == PositionRow(ApexWallet, BTC_DASH_USDT, "LONG", 35, None, RatInt(52000), None, None)

\* for one (wallet, symbol, side) the sessions follow each other: only the
\* last one can be open
PositionTables ==
    {<<>>,
     <<LongOpen>>,
     <<LongClosedEarly, LongOpen>>,
     <<LongOpen, ShortOpen>>,
     <<LongReopened>>,
     <<LongClosed, ShortOpen, LongReopened>>}

InitPositions ==
    /\ position_snapshots = <<>>
    /\ equity_snapshots = <<>>
    /\ exchange_log = <<>>
    /\ est_calls = <<>>
    /\ passes = NoPasses
    /\ now = 0
    /\ ncycles = 0
    /\ closed_trades \in LegTables
    /\ aggregated_trades = <<>>
    /\ positions_tbl \in PositionTables
    /\ strategy_assignments = <<>>
    /\ last_call = NoCall

NextPositions == RefreshAggregation \/ UpsertLegs

SpecPositions == InitPositions /\ [][NextPositions]_vars

\* the open Positions of a wallet, symbol and side
OpenPositions(positions, wallet_id, symbol, side) ==
    {k \in 1..Len(positions) :
        /\ positions[k].wallet_id = wallet_id
        /\ positions[k].symbol = symbol
        /\ positions[k].side = side
        /\ positions[k].closed_at = None}

\* the step is a run of sync_aggregated_trades
AggregationRun == last_call'.fn = "sync_aggregated_trades" /\ ncycles' = ncycles + 1

\* the open Positions, before the run, of the trade of a match of the run
OpenFor(p) ==
    OpenPositions(positions_tbl, closed_trades'[p.closing].wallet_id, p.trade.symbol,
                  p.trade.side)

\* a Position is closed by the closing leg of a match
ClosedBy(position, p) ==
    /\ position.closed_at = Some(closed_trades'[p.closing].timestamp)
    /\ position.exit_price = closed_trades'[p.closing].exit_price
    /\ position.realized_pnl = p.trade.total_pnl

\* C24: for each matched closing leg, sync_aggregated_trades marks the open
\* Position of the trade's wallet, normalized symbol and inferred side as
\* closed, with closed_at the closer's timestamp, exit_price the closer's
\* exit price and realized_pnl the trade's total_pnl; when there is no such
\* open Position, no Position is changed.
C24_ClosePosition ==
    [][AggregationRun =>
         LET pairs == last_call'.result.pairs
         IN  /\ Len(positions_tbl') = Len(positions_tbl)
             /\ \A k \in 1..Len(pairs) :
                    OpenFor(pairs[k]) # {} =>
                        \E o \in OpenFor(pairs[k]) : ClosedBy(positions_tbl'[o], pairs[k])
             /\ \A o \in 1..Len(positions_tbl) :
                    (\A k \in 1..Len(pairs) : o \notin OpenFor(pairs[k]))
                        => positions_tbl'[o] = positions_tbl[o]]_vars

-----------------------------------------------------------------------------
(* Properties of the fill sync *)

\* the fills of the last refresh that have a creation time and a symbol,
\* as the loop of sync_closed_trades_from_fills met them
ValidFills ==
    IF last_call.fn = "sync_aggregated_trades" /\ last_call.returned
    THEN {k \in 1..Len(last_call.result.lookups) : last_call.result.lookups[k].symbol # <<>>}
    ELSE {}

\* the fills the exchange can have returned for a lookup of the run
FillsOf(lookup) ==
    {o \in UNION {{batch[i] : i \in 1..Len(batch)} : batch \in FillBatches} :
        /\ o.createdAt = lookup.timestamp
        /\ normalize_symbol(o.symbol) = lookup.symbol}

\* C25: sync_closed_trades_from_fills stores one leg for every fill that
\* has a creation time and a non-empty symbol: after the call a row of
\* closed_trades with the key (wallet, normalized symbol, fill timestamp,
\* size) exists for each such fill, and the count returned is the number
\* of such fills.
C25_LegPerFill ==
    (last_call.fn = "sync_aggregated_trades" /\ last_call.returned) =>
        /\ last_call.result.trades_synced = Cardinality(ValidFills)
        /\ \A k \in ValidFills :
               \E o \in FillsOf(last_call.result.lookups[k]), r \in 1..Len(closed_trades) :
                   /\ closed_trades[r].wallet_id = last_call.args[1]
                   /\ closed_trades[r].symbol = normalize_symbol(o.symbol)
                   /\ closed_trades[r].timestamp = o.createdAt
                   /\ closed_trades[r].size = o.size

-----------------------------------------------------------------------------
(* is_new_position, called on the snapshots that scheduled refreshes of    *)
(* the Hyperliquid wallet have stored (logger.py: one refresh every 30     *)
(* minutes)                                                                *)

MaxCheckCycles == 3

NewPositionGaps == {1, Minutes(NewPositionLookbackMinutes) + 1, Minutes(30)}

\* a call at the time now + gap, with current_timestamp the time of the call
CheckNewPosition ==
    /\ ncycles < MaxCheckCycles
    /\ position_snapshots # <<>>
    /\ \E symbol \in {BTC, ETH}, gap \in NewPositionGaps :
           /\ now' = now + gap
           /\ ncycles' = ncycles + 1
           /\ last_call' = Returned(PendingCall("is_new_position",
                                                <<HyperliquidWallet, symbol, now + gap>>),
                                    is_new_position(position_snapshots, HyperliquidWallet,
                                                    symbol, now + gap))
           /\ UNCHANGED <<snapshotVars, tradeVars, strategy_assignments, passes>>

NextNewPosition == RefreshHyperliquid \/ CheckNewPosition

SpecNewPosition == Init /\ [][NextNewPosition]_vars

\* the snapshots of a key earlier than a timestamp
EarlierSnapshots(wallet_id, symbol, ts) ==
    {i \in 1..Len(position_snapshots) :
        /\ position_snapshots[i].wallet_id = wallet_id
        /\ position_snapshots[i].symbol = symbol
        /\ position_snapshots[i].timestamp < ts}

\* the most recent of them, all of them when several share its timestamp
MostRecentEarlier(wallet_id, symbol, ts) ==
    {i \in EarlierSnapshots(wallet_id, symbol, ts) :
        \A j \in EarlierSnapshots(wallet_id, symbol, ts) :
            position_snapshots[j].timestamp <= position_snapshots[i].timestamp}

\* C26: is_new_position returns True exactly when the key (wallet, symbol)
\* has no snapshot earlier than the current timestamp or its most recent
\* earlier snapshot has size 0, and False whenever the most recent earlier
\* snapshot has size > 0, however long before the current timestamp it was
\* recorded.  The snapshots earlier than the time of the call are those the
\* call could read: every later snapshot is later than the call.
C26_NewPosition ==
    (last_call.fn = "is_new_position" /\ last_call.returned) =>
        LET recent == MostRecentEarlier(last_call.args[1], last_call.args[2], last_call.args[3])
        IN  last_call.result =
                (\/ recent = {}
                 \/ \E i \in recent : position_snapshots[i].size = 0)
-----------------------------------------------------------------------------
(* The opener a closing leg is given *)

\* the opening legs a closing leg can be matched with: same wallet and
\* normalized symbol, strictly earlier, within the size tolerance
QualifyingOpeners(c) ==
    {i \in 1..Len(closed_trades) :
        /\ closed_trades[i].reduce_only = Some(FALSE)
        /\ closed_trades[i].wallet_id = closed_trades[c].wallet_id
        /\ normalize_symbol(closed_trades[i].symbol) = normalize_symbol(closed_trades[c].symbol)
        /\ closed_trades[i].timestamp < closed_trades[c].timestamp
        /\ WithinTolerance(closed_trades[i], closed_trades[c])}

ClosingLegs ==
    {c \in 1..Len(closed_trades) : closed_trades[c].reduce_only \in {Some(TRUE), None}}

\* after a run: every match has the latest qualifying opener, and a closing
\* leg without a qualifying opener has no match
LatestOpenerChosen ==
    /\ \A p \in Pairs :
           /\ p.opening \in QualifyingOpeners(p.closing)
           /\ \A i \in QualifyingOpeners(p.closing) :
                  closed_trades[i].timestamp <= closed_trades[p.opening].timestamp
    /\ \A c \in ClosingLegs :
           QualifyingOpeners(c) = {} => \A p \in Pairs : p.closing # c

-----------------------------------------------------------------------------
(* Strategy attribution: the legs in the database carry the strategy that  *)
(* covered them when they were stored; the admin then ends or deletes      *)
(* assignments, and the scheduled refresh syncs the fills and aggregates.  *)

\* the assignments before the legs: none, or BTC-USDT to strategy 1 from t=5
AssignmentTables == {<<>>, create_assignment(<<>>, ApexWallet, BTC_DASH_USDT, 1, 5)}

\* a leg as stored under the assignments
Attributed(assignments, leg) ==
    [leg EXCEPT !.strategy_id =
        resolve_strategy_id(assignments, leg.wallet_id, leg.symbol, leg.timestamp)]

\* the exchange returns the fills of the legs again at every refresh
AttributionFills ==
    {<<>>,
     <<ApexFill(10, BTC_DASH_USDT, "BUY", RatInt(1), RatInt(50000), RatInt(5), Some(FALSE)),
       ApexFill(20, BTC_DASH_USDT, "SELL", RatInt(1), RatInt(51000), RatInt(5), Some(TRUE))>>}

InitAttribution ==
    /\ position_snapshots = <<>>
    /\ equity_snapshots = <<>>
    /\ exchange_log = <<>>
    /\ est_calls = <<>>
    /\ passes = NoPasses
    /\ now = 30
    /\ ncycles = 0
    /\ strategy_assignments \in AssignmentTables
    /\ \E legs \in LegTables :
           closed_trades = [k \in 1..Len(legs) |-> Attributed(strategy_assignments, legs[k])]
    /\ aggregated_trades = <<>>
    /\ positions_tbl = <<>>
    /\ last_call = NoCall

RefreshAttribution ==
    /\ ncycles < MaxTradeCycles
    /\ \E fills \in AttributionFills :
           refresh_wallet_data(ApexWallet, Minutes(30), 100, <<>>, fills)

NextAttribution == RefreshAttribution \/ EndAssignment \/ DeleteAssignment

SpecAttribution == InitAttribution /\ [][NextAttribution]_vars

\* C28: after a fill sync followed by aggregation, with no assignment change
\* in between, the strategy_id of every aggregated trade is
\* resolve_strategy_id(wallet, symbol, closing-leg timestamp) under the
\* current assignments, null when no assignment covers that timestamp.
C28_StrategyAttribution ==
    \A p \in Pairs :
        aggregated_trades[p.row].strategy_id =
            resolve_strategy_id(strategy_assignments, CloserOf(p).wallet_id,
                                aggregated_trades[p.row].symbol, CloserOf(p).timestamp)

-----------------------------------------------------------------------------
\* C29: no Position ever gets a closed_at earlier than its opened_at: a run
\* of sync_aggregated_trades, also one over legs already aggregated, never
\* closes a Position that was opened after the closing leg's timestamp.
C29_ClosedAfterOpened ==
    \A k \in 1..Len(positions_tbl) :
        positions_tbl[k].closed_at # None =>
            positions_tbl[k].closed_at[1] >= positions_tbl[k].opened_at

-----------------------------------------------------------------------------
(* The legs that sync_closed_trades_from_fills builds from an opening and  *)
(* a closing fill (sync_service.py:34-53, for a fill whose lookups have    *)
(* returned), and the trade that sync_aggregated_trades makes of them.     *)
(* last_call keeps the two fills the exchange returns at every sync.       *)

MaxIngestCycles == 3

OpeningFills ==
    {ApexFill(10, BTCUSDT, side, RatInt(1), RatInt(50000), RatInt(fee), Some(FALSE)) :
        side \in {"BUY", "SELL"}, fee \in {0, 2, 5}}

ClosingFills ==
    {ApexFill(20, BTCUSDT, side, size, RatInt(price), RatInt(fee), Some(TRUE)) :
        side \in {"BUY", "SELL"}, size \in {RatInt(1), Frac(10009, 10000)},
        price \in {49000, 51000}, fee \in {0, 3, 5}}

InitIngest ==
    /\ position_snapshots = <<>>
    /\ equity_snapshots = <<>>
    /\ exchange_log = <<>>
    /\ est_calls = <<>>
    /\ passes = NoPasses
    /\ now = 30
    /\ ncycles = 0
    /\ closed_trades = <<>>
    /\ aggregated_trades = <<>>
    /\ positions_tbl = <<>>
    /\ strategy_assignments = <<>>
    /\ \E opening \in OpeningFills, closing \in ClosingFills :
           last_call = PendingCall("sync_closed_trades_from_fills", <<<<opening, closing>>>>)

\* the loop from line 34 on: the data of each fill, upserted
ingest_fills(fills, wallet_id) ==
    /\ closed_trades' = upsert_closed_trades(closed_trades, closed_trades,
           [i \in 1..Len(fills) |-> fill_data(fills[i], None, None, None)], wallet_id)
    /\ ncycles' = ncycles + 1
    /\ UNCHANGED <<snapshotVars, now, aggregated_trades, positions_tbl, strategy_assignments,
                   last_call, passes>>

\* sync_aggregated_trades, committed
aggregate_fills(wallet_id) ==
    \E aggregation \in {sync_aggregated_trades(closed_trades, aggregated_trades,
                                               positions_tbl, wallet_id)} :
        /\ aggregated_trades' = aggregation.aggregated
        /\ positions_tbl' = aggregation.positions
        /\ ncycles' = ncycles + 1
        /\ UNCHANGED <<snapshotVars, now, closed_trades, strategy_assignments, last_call,
                       passes>>

IngestFills ==
    /\ ncycles < MaxIngestCycles
    /\ ingest_fills(last_call.args[1], ApexWallet)

AggregateFills ==
    /\ ncycles < MaxIngestCycles
    /\ aggregate_fills(ApexWallet)

NextIngest == IngestFills \/ AggregateFills

SpecIngest == InitIngest /\ [][NextIngest]_vars

\* price difference * size, less the fees of the two fills
NetOfBothFees(opening, closing, trade) ==
    LET diff == IF trade.side = "LONG" THEN RatSub(closing.price, opening.price)
                ELSE RatSub(opening.price, closing.price)
    IN  RatSub(RatMul(diff, trade.size), RatAdd(opening.fee, closing.fee))

====
